---- MODULE Spec2Model ----
(***************************************************************************)
(* Conversation turn orchestrator of the multi-personality bot platform.   *)
(* BotManager.handleMessage / handleCommand (lib/bot-manager.js) and the   *)
(* BrainLoader helpers it calls, as a state machine.  JavaScript runs one  *)
(* handler at a time and yields only at an await, so every action is the   *)
(* code between two awaits of one handler invocation: it takes the outcome *)
(* of the awaited call as its input and ends by issuing the next call.     *)
(***************************************************************************)
EXTENDS Integers, Sequences, FiniteSets, TLC

(* ------------------------------ bounds -------------------------------- *)

\* inbound messages a bot handles in one behaviour (botInfo.messageCount cap)
MaxMessages == 3
\* image tool results the agent may emit during one streamed exchange
MaxImages == 2
\* brain.rateLimits.free of the modelled brains (104 and 150 in src/brains)
DailyLimit == 2
\* recoverBot invocations per bot in one behaviour
MaxRecoveries == 2
\* botInfo.errorCount cap
MaxErrors == 5
\* nudge scan cycles started in one behaviour
MaxCycles == 2
\* hours the clock runs in a behaviour with nudges
MaxHours == 82

(* --------------------------- JavaScript strings ----------------------- *)
\* A string is the tuple of its characters.

LowerChar(c) ==
  CASE c = "A" -> "a" [] c = "B" -> "b" [] c = "C" -> "c" [] c = "D" -> "d"
    [] c = "E" -> "e" [] c = "F" -> "f" [] c = "G" -> "g" [] c = "H" -> "h"
    [] c = "I" -> "i" [] c = "J" -> "j" [] c = "K" -> "k" [] c = "L" -> "l"
    [] c = "M" -> "m" [] c = "N" -> "n" [] c = "O" -> "o" [] c = "P" -> "p"
    [] c = "Q" -> "q" [] c = "R" -> "r" [] c = "S" -> "s" [] c = "T" -> "t"
    [] c = "U" -> "u" [] c = "V" -> "v" [] c = "W" -> "w" [] c = "X" -> "x"
    [] c = "Y" -> "y" [] c = "Z" -> "z" [] OTHER -> c

\* String.prototype.toLowerCase
ToLowerCase(s) == [i \in 1..Len(s) |-> LowerChar(s[i])]

\* String.prototype.includes
Includes(s, k) ==
  \E i \in 0..(Len(s) - Len(k)) : SubSeq(s, i + 1, i + Len(k)) = k

\* String.prototype.startsWith
StartsWith(s, p) == Len(s) >= Len(p) /\ SubSeq(s, 1, Len(p)) = p

IsSpace(c) == c \in {" ", "\n", "\t"}

RECURSIVE TrimStart(_)
TrimStart(s) ==
  IF s # <<>> /\ IsSpace(Head(s)) THEN TrimStart(Tail(s)) ELSE s

RECURSIVE TrimEnd(_)
TrimEnd(s) ==
  IF s # <<>> /\ IsSpace(s[Len(s)]) THEN TrimEnd(SubSeq(s, 1, Len(s) - 1)) ELSE s

\* String.prototype.trim
Trim(s) == TrimEnd(TrimStart(s))

\* s.split(' ')[0]: the part of s before its first space
RECURSIVE FirstWord(_)
FirstWord(s) ==
  IF s = <<>> \/ Head(s) = " " THEN <<>> ELSE <<Head(s)>> \o FirstWord(Tail(s))

(* ------------------------------ inbound ------------------------------- *)

BotIds == {"cartooned", "therapist"}
Users == {1}
Uuids == {"s1", "s2"}
NoUuid == "none"

\* A Telegram message: text and caption are optional, photo is the number of
\* sizes in msg.photo (0 when the message carries no photo).
Msg(hasText, text, hasCaption, caption, photo) ==
  [hasText |-> hasText, text |-> text, hasCaption |-> hasCaption,
   caption |-> caption, photo |-> photo]

TextMsg(s) == Msg(TRUE, s, FALSE, <<>>, 0)
PhotoMsg(c) == Msg(FALSE, <<>>, TRUE, c, 1)

Messages ==
  { Msg(FALSE, <<>>, FALSE, <<>>, 0),                       \* e.g. a sticker
    TextMsg(<<" ", " ">>),
    TextMsg(<<"h", "i">>),
    TextMsg(<<" ", "D", "r", "a", "w", " ", "m", "e">>),
    TextMsg(<<"c", "r", "e", "a", "t", "e", "d">>),
    TextMsg(<<"/", "r", "e", "s", "e", "t">>),
    TextMsg(<<"/", "r", "e", "s", "t", "a", "r", "t">>),
    TextMsg(<<"/", "T", "T", "S", " ", "o", "n">>),
    TextMsg(<<"/", "s", "t", "a", "t", "s">>),
    TextMsg(<<"/", "h", "e", "l", "p">>),
    TextMsg(<<"/", "n", "o", "p", "e">>),
    PhotoMsg(<<"t", "u", "r", "n", " ", "m", "e", " ", "i", "n", "t", "o", " ",
               "a", " ", "c", "a", "r", "t", "o", "o", "n">>),
    PhotoMsg(<<"a", " ", "P", "h", "o", "t", "o">>),
    Msg(FALSE, <<>>, FALSE, <<>>, 1) }                      \* photo, no caption

\* mutant: the text and the caption are taken without trim()
TextOfUntrimmed(msg) ==
  LET t == IF msg.hasText THEN msg.text ELSE <<>>
      c == IF msg.hasCaption THEN msg.caption ELSE <<>>
  IN  IF t # <<>> THEN t ELSE c

\* const text = msg.text?.trim() || msg.caption?.trim() || ''
TextOf(msg) ==
  LET t == IF msg.hasText THEN Trim(msg.text) ELSE <<>>
      c == IF msg.hasCaption THEN Trim(msg.caption) ELSE <<>>
  IN  IF t # <<>> THEN t ELSE c

\* const hasPhoto = msg.photo && msg.photo.length > 0
HasPhoto(msg) == msg.photo > 0

(* ------------------------------- brains ------------------------------- *)
\* A brain is static configuration.  An optional section carries present;
\* enabled keeps the JavaScript value ("yes" is a truthy value that is not
\* the boolean true).

\* a section the brain does not have
NoSection == [present |-> FALSE, enabled |-> "false", sendTextToo |-> FALSE]

ImageGenCfgs ==
  { NoSection,
    [present |-> TRUE, enabled |-> "true", sendTextToo |-> FALSE],
    [present |-> TRUE, enabled |-> "true", sendTextToo |-> TRUE],
    [present |-> TRUE, enabled |-> "yes", sendTextToo |-> FALSE] }

TtsCfgs ==
  { NoSection,
    [present |-> TRUE, enabled |-> "false", sendTextToo |-> FALSE],
    [present |-> TRUE, enabled |-> "true", sendTextToo |-> FALSE],
    [present |-> TRUE, enabled |-> "true", sendTextToo |-> TRUE] }

\* brain.security: "undefined" stands for a brain without the field and
\* "false" for security: false
SecuritySettings == {"undefined", "default", "strict", "minimal", "false", "bogus"}

\* brain.nudges and brain.callToAction of a brain that has neither
NoNudges == [enabled |-> FALSE, triggers |-> <<>>]
NoCallToAction == [enabled |-> FALSE, sendOnFirstMessage |-> FALSE, triggerEvery |-> 0, image |-> FALSE]

Brain(ig, tts, sec) ==
  [imageGen |-> ig, tts |-> tts, security |-> sec,
   nudges |-> NoNudges, callToAction |-> NoCallToAction]

\* The media sections vary on a brain without security (brains/cartoonedbot.js):
\* each section alone, and both sections with the same setting.  The security
\* setting varies on a brain without media sections (brains/therapist.js).
MediaBrains ==
  { Brain(ig, tts, "false") : ig \in ImageGenCfgs, tts \in {NoSection} }
  \cup
  { Brain(ig, tts, "false") : ig \in {NoSection}, tts \in TtsCfgs }
  \cup
  { Brain(ig, ig, "false") : ig \in ImageGenCfgs }

PlainBrains == { Brain(NoSection, NoSection, sec) : sec \in SecuritySettings }

Brains == MediaBrains \cup PlainBrains

\* the bot a behaviour registers: id and brain
Fleet ==
  { <<"cartooned", brain>> : brain \in MediaBrains } \cup
  { <<"therapist", brain>> : brain \in PlainBrains }

(* ----------------------------- BrainLoader ---------------------------- *)

\* lib/security-profiles.js: the profiles and whether each has a reminder
SecurityProfiles == {"default", "strict", "minimal"}

ProfileReminder(p) == IF p = "minimal" THEN "none" ELSE p

\* const securitySetting = brain.security !== undefined ? brain.security : 'default'
SecuritySetting(brain) ==
  IF brain.security = "undefined" THEN "default" ELSE brain.security

\* BrainLoader.buildSystemPrompt: the security wrapper the prompt opens with
\* ("none" when security is false; an unknown profile name uses the default)
WrapperOf(brain) ==
  LET s == SecuritySetting(brain)
  IN  IF s = "false" THEN "none"
      ELSE IF s \in SecurityProfiles THEN s ELSE "default"

\* BrainLoader.getSecurityReminder: "none" stands for null, otherwise the
\* profile whose reminder text is returned
GetSecurityReminder(brain) ==
  LET s == SecuritySetting(brain)
  IN  IF s = "false" THEN "none"
      ELSE LET profile == IF s \in SecurityProfiles THEN s ELSE "default"
           IN  ProfileReminder(profile)

(* --------------------------- prompt assembly -------------------------- *)
\* A prompt is the sequence of the pieces the template literal concatenates.

Part(kind, body) == [kind |-> kind, body |-> body]

SystemPart(brain) == Part("system", <<WrapperOf(brain)>>)
ReminderPart(r) == Part("reminder", <<r>>)

\* mutant: the reminder goes out with the system prompt only
FlatPromptReminderOnce(brain, isNewSession, text) ==
  LET r == GetSecurityReminder(brain)
  IN  IF isNewSession
      THEN IF r # "none"
           THEN <<SystemPart(brain), Part("rule", <<>>), ReminderPart(r),
                  Part("label", <<"User: ">>), Part("text", text)>>
           ELSE <<SystemPart(brain), Part("label", <<"User: ">>), Part("text", text)>>
      ELSE <<Part("label", <<"User: ">>), Part("text", text)>>

\* the text-only fullMessage of handleMessage
FlatPrompt(brain, isNewSession, text) ==
  LET r == GetSecurityReminder(brain)
  IN  IF isNewSession
      THEN IF r # "none"
           THEN <<SystemPart(brain), Part("rule", <<>>), ReminderPart(r),
                  Part("label", <<"User: ">>), Part("text", text)>>
           ELSE <<SystemPart(brain), Part("label", <<"User: ">>), Part("text", text)>>
      ELSE IF r # "none"
           THEN <<ReminderPart(r), Part("label", <<"User: ">>), Part("text", text)>>
           ELSE <<Part("label", <<"User: ">>), Part("text", text)>>

\* prefixText of the multi-modal branch
PrefixText(brain, isNewSession) ==
  LET r == GetSecurityReminder(brain)
  IN  IF isNewSession
      THEN IF r # "none"
           THEN <<SystemPart(brain), Part("rule", <<>>), ReminderPart(r),
                  Part("label", <<"User says:">>)>>
           ELSE <<SystemPart(brain), Part("label", <<"User says:">>)>>
      ELSE IF r # "none"
           THEN <<ReminderPart(r), Part("label", <<"User says:">>)>>
           ELSE <<Part("label", <<"User says:">>)>>

\* `${prefixText}\n${text || '(user sent an image)'}`
StructuredText(brain, isNewSession, text) ==
  PrefixText(brain, isNewSession) \o
    << IF text # <<>> THEN Part("text", text) ELSE Part("placeholder", <<>>) >>

\* The request handed to the agent client: message is fullMessage and
\* content is the text item of messageContent (empty when messageContent is
\* null); hasImage tells whether messageContent carries the inline image.
\* shape names the client function called and sessionId the session to resume.
BuildRequest(shape, currentUuid, brain, isNewSession, text, photoBase64) ==
  IF photoBase64
  THEN [shape |-> shape, sessionId |-> currentUuid,
        message |-> StructuredText(brain, isNewSession, text) \o <<Part("suffix", <<"[IMAGE]">>)>>,
        content |-> StructuredText(brain, isNewSession, text),
        hasImage |-> TRUE]
  ELSE [shape |-> shape, sessionId |-> currentUuid,
        message |-> FlatPrompt(brain, isNewSession, text),
        content |-> <<>>,
        hasImage |-> FALSE]

\* What the agent is given as the prompt: the structured payload when there
\* is one, the flat string otherwise.
OutboundPrompt(req) == IF req.hasImage THEN req.content ELSE req.message

(* ---------------------------- ModeClassifier -------------------------- *)

ImageKeywords ==
  { <<"i", "m", "a", "g", "e">>,
    <<"p", "i", "c", "t", "u", "r", "e">>,
    <<"p", "h", "o", "t", "o">>,
    <<"d", "r", "a", "w">>,
    <<"g", "e", "n", "e", "r", "a", "t", "e">> ,
    <<"c", "r", "e", "a", "t", "e", " ", "a">> }

\* const imageGenEnabled = brain.imageGen?.enabled === true
ImageGenEnabled(brain) == brain.imageGen.present /\ brain.imageGen.enabled = "true"

\* mutant: the keywords are looked for without toLowerCase()
IsImageRequestCaseSensitive(brain, text) ==
  /\ ImageGenEnabled(brain)
  /\ \E k \in ImageKeywords : Includes(text, k)

\* const isImageRequest = imageGenEnabled && (text.toLowerCase().includes(..) || ..)
IsImageRequest(brain, text) ==
  /\ ImageGenEnabled(brain)
  /\ \/ Includes(ToLowerCase(text), <<"i", "m", "a", "g", "e">>)
     \/ Includes(ToLowerCase(text), <<"p", "i", "c", "t", "u", "r", "e">>)
     \/ Includes(ToLowerCase(text), <<"p", "h", "o", "t", "o">>)
     \/ Includes(ToLowerCase(text), <<"d", "r", "a", "w">>)
     \/ Includes(ToLowerCase(text), <<"g", "e", "n", "e", "r", "a", "t", "e">>)
     \/ Includes(ToLowerCase(text), <<"c", "r", "e", "a", "t", "e", " ", "a">>)

\* brain.tts?.enabled === true
BrainTtsDefault(brain) == brain.tts.present /\ brain.tts.enabled = "true"

\* const ttsEnabled = userTtsPreference !== null ? userTtsPreference
\*                                               : (brain.tts?.enabled === true)
TtsEnabled(brain, pref) ==
  IF pref # "unset" THEN pref = "on" ELSE BrainTtsDefault(brain)

\* the if / else if / else over isImageRequest and ttsEnabled
ModeOf(brain, text, pref) ==
  IF IsImageRequest(brain, text) THEN "image"
  ELSE IF TtsEnabled(brain, pref) THEN "tts"
  ELSE "text"

(* ----------------------- collaborators' contracts --------------------- *)

\* RateLimiter.checkLimit(botId, userId, brain) -> {allowed, limit, current}
CheckLimit(current) ==
  [allowed |-> current < DailyLimit, limit |-> DailyLimit, current |-> current]

\* A fresh session of the session store
NewSession ==
  [currentUuid |-> NoUuid, messageCount |-> 0, lastMessageTime |-> 0,
   ttsPreference |-> "unset", nudgeHistory |-> <<>>]

\* SessionManager.resetConversation: the current identifier moves to history
ResetConversation(s) == [s EXCEPT !.currentUuid = NoUuid]

\* SessionManager.setTtsPreference
SetTtsPreference(s, on) == [s EXCEPT !.ttsPreference = IF on THEN "on" ELSE "off"]

(* -------------------------------- state ------------------------------- *)

VARIABLES
  bots,      \* BotManager.bots: botId -> botInfo
  sess,      \* session store: <<botId, userId>> -> session metadata
  rate,      \* rate limiter: <<botId, userId>> -> messages counted today
  turn,      \* slot -> the handleMessage invocation suspended in it
  clock,     \* Date.now(), advanced by every reading that is stored
  window,    \* how many handler invocations the channel lets overlap
  recov,     \* recoverBot: the invocations in flight and the calls made per bot
  timers,    \* setTimeout: the call-to-action timers that have not fired yet
  nudges     \* NudgeManager: the scan cycles in flight

\* what the background callbacks own
bg == <<recov, timers, nudges>>

vars == <<bots, sess, rate, turn, clock, window, bg>>

\* turn slots: a handler invocation occupies one from its first await to its end
Slots == {1, 2}
Pairs == BotIds \X Users

\* A turn record is one invocation of handleMessage: pc is the await it is
\* suspended at ("done" once it returned or rejected), empty tells whether
\* the event it was invoked for was empty, escaped whether it rejected.

\* A channel call the turn has made: st is "pending" until the awaited call
\* settles, then "ok" or "fail"; off/len locate a text chunk in the clean
\* response; detail is the internal error text a failure message embeds.
Sent(kind, off, len, detail) ==
  [kind |-> kind, st |-> "pending", off |-> off, len |-> len, detail |-> detail]

Call(kind) == Sent(kind, 0, 0, "")

\* the last call of the log settles
Settle(log, ok) ==
  [log EXCEPT ![Len(log)].st = IF ok THEN "ok" ELSE "fail"]

NoText == [len |-> 0, userIdx |-> -1, pad |-> 0]

NoResult ==
  [success |-> FALSE, text |-> NoText, audioPath |-> FALSE, imagePath |-> FALSE,
   sessionId |-> NoUuid, error |-> ""]

NoRequest ==
  [shape |-> "none", sessionId |-> NoUuid, message |-> <<>>, content |-> <<>>,
   hasImage |-> FALSE]

IdleTurn ==
  [pc |-> "idle", bot |-> "cartooned", user |-> 1, brain |-> Brain(NoSection, NoSection, "undefined"),
   empty |-> FALSE, text |-> <<>>, hasPhoto |-> FALSE,
   photoBase64 |-> FALSE, limited |-> FALSE, isCommand |-> FALSE, command |-> <<>>,
   currentUuid |-> NoUuid, isNewSession |-> FALSE, ttsPreference |-> "unset",
   mode |-> "none",
   request |-> NoRequest, agentCalls |-> 0, generatedImages |-> 0, result |-> NoResult, accepted |-> FALSE,
   clean |-> 0, idx |-> 0, sent |-> <<>>, cta |-> FALSE, threw |-> FALSE, escaped |-> FALSE,
   streamedText |-> 0, lastUpdate |-> 0, now |-> 0, chunks |-> 0, edits |-> <<>>]

Finished(tr) == tr.pc \in {"idle", "done"}

\* the botInfo addBot stores: channel numbers the TelegramBot instances made
\* for the bot and polling is what bot.isPolling() of the current one returns
NewBot(brain) ==
  [brain |-> brain, status |-> "healthy", messageCount |-> 0, errorCount |-> 0,
   channel |-> 1, polling |-> TRUE]

\* checkNudges invocations that may overlap
NudgeSlots == {1, 2}

\* no scan cycle: todo is what is left of the loops over bots and users
IdleCycle ==
  [pc |-> "done", todo |-> <<>>, bot |-> "cartooned", user |-> 1, delayHours |-> 0,
   stopSequence |-> FALSE, modality |-> "none"]

\* no recovery, timer or scan cycle is in flight after construction;
\* delivered lists the nudges that reached a user, aborted counts the
\* nudges given up because no message was generated; stop is the progress
\* of stopAll, todo the bots its loop has still to stop, held the channel
\* of the bot it is stopping, and detached the botInfo objects that
\* bots.clear() removed from the registry
InitBackground ==
  /\ recov = [calls |-> [b \in BotIds |-> 0], fails |-> [b \in BotIds |-> 0], running |-> {},
              stop |-> "idle", todo |-> <<>>, held |-> 0, detached |-> <<>>]
  /\ timers = <<>>
  /\ nudges = [cycles |-> [c \in NudgeSlots |-> IdleCycle], started |-> 0, aborted |-> 0,
               delivered |-> <<>>]

\* the platform after construction with the bots of fleet registered
InitWith(fleet) ==
  /\ bots = [x \in {f[1] : f \in fleet} |-> NewBot((CHOOSE f \in fleet : f[1] = x)[2])]
  /\ sess = [p \in Pairs |-> NewSession]
  /\ rate = [p \in Pairs |-> 0]
  /\ turn = [t \in Slots |-> IdleTurn]
  /\ clock = 1
  /\ window = 1
  /\ InitBackground

Init == \E f \in Fleet : InitWith({f})

(* ----------------------------- handleCommand -------------------------- *)

CmdStart == <<"/", "s", "t", "a", "r", "t">>
CmdHelp == <<"/", "h", "e", "l", "p">>
CmdReset == <<"/", "r", "e", "s", "e", "t">>
CmdRestart == <<"/", "r", "e", "s", "t", "a", "r", "t">>
CmdTts == <<"/", "t", "t", "s">>
CmdStats == <<"/", "s", "t", "a", "t", "s">>

\* const command = msg.text.split(' ')[0].toLowerCase()
CommandOf(msg) == ToLowerCase(FirstWord(msg.text))

\* mutant: /restart rotates the session of any bot
CommandSessionAnyBot(s, brain, botId, command) ==
  IF command = CmdReset THEN ResetConversation(s)
  ELSE IF command = CmdRestart THEN ResetConversation(s)
  ELSE IF command = CmdTts
       THEN SetTtsPreference(s, ~TtsEnabled(brain, s.ttsPreference))
  ELSE s

\* mutant: /tts sets the preference to the negation of the brain default
CommandSessionNegatingDefault(s, brain, botId, command) ==
  IF command = CmdReset THEN ResetConversation(s)
  ELSE IF command = CmdRestart /\ botId = "cartooned" THEN ResetConversation(s)
  ELSE IF command = CmdTts
       THEN SetTtsPreference(s, ~BrainTtsDefault(brain))
  ELSE s

\* the session after the switch of handleCommand
CommandSession(s, brain, botId, command) ==
  IF command = CmdReset THEN ResetConversation(s)
  ELSE IF command = CmdRestart /\ botId = "cartooned" THEN ResetConversation(s)
  ELSE IF command = CmdTts
       THEN SetTtsPreference(s, ~TtsEnabled(brain, s.ttsPreference))
  ELSE s

\* the one message the switch of handleCommand sends ("" when it sends none)
CommandReply(s, brain, botId, command) ==
  IF command \in {CmdStart, CmdHelp} THEN "help"
  ELSE IF command = CmdReset THEN ""
  ELSE IF command = CmdRestart
       THEN IF botId = "cartooned" THEN "restarted" ELSE "unavailable"
  ELSE IF command = CmdTts
       THEN IF ~TtsEnabled(brain, s.ttsPreference) THEN "speech_mode" ELSE "text_mode"
  ELSE IF command = CmdStats THEN "stats"
  ELSE "unknown_command"

\* handleCommand up to its await: msg.text.split throws a TypeError when the
\* command came as a caption (msg.text undefined), and the rejection is the
\* one handleMessage returns.
HandleCommand(tr, s, brain, msg) ==
  IF ~msg.hasText
  THEN [turn |-> [tr EXCEPT !.pc = "done", !.isCommand = TRUE, !.escaped = TRUE], sess |-> s]
  ELSE LET command == CommandOf(msg)
           reply == CommandReply(s, brain, tr.bot, command)
       IN  [turn |-> IF reply = ""
                     THEN [tr EXCEPT !.pc = "done", !.isCommand = TRUE, !.command = command]
                     ELSE [tr EXCEPT !.pc = "command", !.isCommand = TRUE, !.command = command,
                                     !.sent = <<Call(reply)>>],
            sess |-> CommandSession(s, brain, tr.bot, command)]

(* ----------------------------- handleMessage -------------------------- *)

\* if (!text && !hasPhoto) return
IsIgnored(text, hasPhoto) == text = <<>> /\ ~hasPhoto

\* mutant: the notice is sent but the return after it is missing
RateGateWithoutReturn(tr, current) ==
  IF ~CheckLimit(current).allowed
  THEN [tr EXCEPT !.pc = "thinking", !.limited = TRUE, !.sent = <<Call("limit_notice")>>]
  ELSE [tr EXCEPT !.pc = "thinking", !.sent = <<Call("thinking")>>]

\* the rate gate: the limit notice when denied, else the status indicator
RateGate(tr, current) ==
  IF ~CheckLimit(current).allowed
  THEN [tr EXCEPT !.pc = "limit", !.limited = TRUE, !.sent = <<Call("limit_notice")>>]
  ELSE [tr EXCEPT !.pc = "thinking", !.sent = <<Call("thinking")>>]

\* An inbound event is empty when it has no photo and neither its text nor
\* its caption holds anything but white space.
IsBlank(str) == \A i \in 1..Len(str) : IsSpace(str[i])

EmptyEvent(msg) ==
  /\ msg.photo = 0
  /\ msg.hasText => IsBlank(msg.text)
  /\ msg.hasCaption => IsBlank(msg.caption)

InFlight == {x \in Slots : ~Finished(turn[x])}

\* handleMessage from its entry to its first await
Receive(t, b, u, msg) ==
  /\ Finished(turn[t])
  /\ \A x \in Slots : x < t => ~Finished(turn[x])
  /\ Cardinality(InFlight) < window
  /\ LET text == TextOf(msg)
         hasPhoto == HasPhoto(msg)
         tr == [IdleTurn EXCEPT !.bot = b, !.user = u, !.text = text, !.hasPhoto = hasPhoto,
                                !.empty = EmptyEvent(msg),
                                !.brain = IF b \in DOMAIN bots THEN bots[b].brain ELSE @]
     IN  IF IsIgnored(text, hasPhoto) \/ b \notin DOMAIN bots
         THEN /\ turn' = [turn EXCEPT ![t] = [tr EXCEPT !.pc = "done"]]
              /\ UNCHANGED <<bots, sess, rate, clock, window, bg>>
         ELSE /\ bots[b].messageCount < MaxMessages
              /\ bots' = [bots EXCEPT ![b].messageCount = @ + 1]
              /\ IF StartsWith(text, <<"/">>)
                 THEN LET r == HandleCommand(tr, sess[<<b, u>>], bots[b].brain, msg)
                      IN  /\ turn' = [turn EXCEPT ![t] = r.turn]
                          /\ sess' = [sess EXCEPT ![<<b, u>>] = r.sess]
                 ELSE /\ turn' = [turn EXCEPT ![t] = RateGate(tr, rate[<<b, u>>])]
                      /\ sess' = sess
              /\ UNCHANGED <<rate, clock, window, bg>>

\* the limit notice settles: handleMessage returns, or rejects when the send
\* threw (the await is outside the try block)
LimitNoticeSettled(t, ok) ==
  /\ turn[t].pc = "limit"
  /\ turn' = [turn EXCEPT ![t].pc = "done",
                          ![t].sent = Settle(@, ok),
                          ![t].escaped = ~ok]
  /\ UNCHANGED <<bots, sess, rate, clock, window, bg>>

\* the reply of a command settles: handleCommand has no try block
CommandSettled(t, ok) ==
  /\ turn[t].pc = "command"
  /\ turn' = [turn EXCEPT ![t].pc = "done",
                          ![t].sent = Settle(@, ok),
                          ![t].escaped = ~ok]
  /\ UNCHANGED <<bots, sess, rate, clock, window, bg>>

\* the catch block of handleMessage: the apology that embeds error.message
Catch(tr, message) ==
  [tr EXCEPT !.pc = "apology", !.threw = TRUE,
             !.sent = Append(@, Sent("apology", 0, 0, message))]

\* mutant: a session is new only as long as no exchange of it has returned
PrepareNewByCount(tr, s, photoBase64) ==
  LET currentUuid == s.currentUuid
      isNewSession == s.messageCount = 0
      mode == ModeOf(tr.brain, tr.text, s.ttsPreference)
      tr1 == [tr EXCEPT !.photoBase64 = photoBase64, !.currentUuid = currentUuid,
                        !.isNewSession = isNewSession,
                        !.ttsPreference = s.ttsPreference, !.mode = mode]
  IN  IF mode = "tts" /\ ~tr.brain.tts.present
      THEN Catch(tr1, "TypeError")
      ELSE [tr1 EXCEPT !.pc = "agent", !.agentCalls = @ + 1,
                       !.request = BuildRequest(mode, currentUuid, tr.brain, isNewSession,
                                                tr.text, photoBase64)]

\* From the session reads to the agent call: getCurrentUuid, the prompt, the
\* mode and the call of the matching client function.  The argument list of
\* sendToClaudeWithTTS reads brain.tts.voice, a TypeError on a brain without
\* a tts section.
Prepare(tr, s, photoBase64) ==
  LET currentUuid == s.currentUuid
      isNewSession == currentUuid = NoUuid
      mode == ModeOf(tr.brain, tr.text, s.ttsPreference)
      tr1 == [tr EXCEPT !.photoBase64 = photoBase64, !.currentUuid = currentUuid,
                        !.isNewSession = isNewSession,
                        !.ttsPreference = s.ttsPreference, !.mode = mode]
  IN  IF mode = "tts" /\ ~tr.brain.tts.present
      THEN Catch(tr1, "TypeError")
      ELSE [tr1 EXCEPT !.pc = "agent", !.agentCalls = @ + 1,
                       !.request = BuildRequest(mode, currentUuid, tr.brain, isNewSession,
                                                tr.text, photoBase64)]

\* 'Thinking...' settles: the photo download starts, or the turn is prepared
ThinkingSettled(t, ok) ==
  /\ turn[t].pc = "thinking"
  /\ LET tr == [turn[t] EXCEPT !.sent = Settle(@, ok)]
     IN  turn' = [turn EXCEPT ![t] =
                    IF ~ok THEN Catch(tr, "send")
                    ELSE IF tr.hasPhoto
                         THEN [tr EXCEPT !.pc = "photo", !.sent = Append(@, Call("get_file"))]
                         ELSE Prepare(tr, sess[<<tr.bot, tr.user>>], FALSE)]
  /\ UNCHANGED <<bots, sess, rate, clock, window, bg>>

\* bot.getFile and the download settle; a failure is logged and the turn
\* goes on without the photo
PhotoSettled(t, ok) ==
  /\ turn[t].pc = "photo"
  /\ LET tr == [turn[t] EXCEPT !.sent = Settle(@, ok)]
     IN  turn' = [turn EXCEPT ![t] = Prepare(tr, sess[<<tr.bot, tr.user>>], ok)]
  /\ UNCHANGED <<bots, sess, rate, clock, window, bg>>

\* onToolResult: an image tool result with success and image_path is pushed
\* onto generatedImages; any other tool, a failed result or one that does
\* not parse leaves the list alone
OnToolResult(generatedImages, toolName, toolResult) ==
  IF toolName = "mcp__image-gen__generate_image" /\ toolResult = "image"
  THEN generatedImages + 1
  ELSE generatedImages

ToolResult(t, toolName, toolResult) ==
  /\ turn[t].pc = "agent"
  /\ turn[t].mode = "text"
  /\ turn[t].generatedImages < MaxImages
  /\ turn' = [turn EXCEPT ![t].generatedImages = OnToolResult(@, toolName, toolResult)]
  /\ UNCHANGED <<bots, sess, rate, clock, window, bg>>

\* onTurn2Start: the status indicator is edited to 'Drawing...' or
\* 'Recording...'; the hook swallows a failed edit
Turn2Start(t) ==
  /\ turn[t].pc = "agent"
  /\ turn[t].mode \in {"image", "tts"}
  /\ \A i \in 1..Len(turn[t].sent) : turn[t].sent[i].kind # "edit_status"
  /\ turn' = [turn EXCEPT ![t].sent = Append(@, [Call("edit_status") EXCEPT !.st = "ignored"])]
  /\ UNCHANGED <<bots, sess, rate, clock, window, bg>>

(* ------------------------- the agent's TurnResult --------------------- *)

\* result.text: its length, the index of the last 'User:' in it (-1 when it
\* has none) and the white space that trim() removes after cutting the echo
ResponseTexts ==
  { NoText,
    [len |-> 12, userIdx |-> 3, pad |-> 1],
    [len |-> 4001, userIdx |-> -1, pad |-> 0] }

\* response texts around the chunking threshold (4000, 4001, 8000, 8001, and
\* 8007 characters of which an echoed prompt of 7 is cut)
LongTexts ==
  { [len |-> 4000, userIdx |-> -1, pad |-> 0],
    [len |-> 4001, userIdx |-> -1, pad |-> 0],
    [len |-> 8000, userIdx |-> -1, pad |-> 0],
    [len |-> 8001, userIdx |-> -1, pad |-> 0],
    [len |-> 8007, userIdx |-> 2, pad |-> 0] }

AgentErrors == {"", "overloaded"}

\* what an exchange of the given shape can return, its text among texts
AgentResultsOver(texts, mode) ==
  { [success |-> TRUE, text |-> x, audioPath |-> a, imagePath |-> i,
     sessionId |-> sid, error |-> ""] :
      x \in texts,
      a \in (IF mode = "tts" THEN BOOLEAN ELSE {FALSE}),
      i \in (IF mode = "image" THEN BOOLEAN ELSE {FALSE}),
      sid \in Uuids \cup {NoUuid} }
  \cup
  { [success |-> FALSE, text |-> NoText, audioPath |-> FALSE, imagePath |-> FALSE,
     sessionId |-> NoUuid, error |-> e] : e \in AgentErrors }

AgentResults(mode) == AgentResultsOver(ResponseTexts, mode)

(* --------------------------- bookkeeping ------------------------------ *)

\* mutant: the identifier of the response is not stored
PersistUuidNever(s, result) == s

\* mutant: the identifier is stored for a new session only
PersistUuidOnce(s, result) ==
  IF result.success /\ result.sessionId # NoUuid /\ s.currentUuid = NoUuid
  THEN [s EXCEPT !.currentUuid = result.sessionId]
  ELSE s

\* if (result.success && result.metadata?.sessionInfo?.sessionId) setCurrentUuid(..)
PersistUuid(s, result) ==
  IF result.success /\ result.sessionId # NoUuid
  THEN [s EXCEPT !.currentUuid = result.sessionId]
  ELSE s

\* mutant: the first nudge of the history is the one marked
MarkFirstNudge(s) ==
  IF Len(s.nudgeHistory) > 0 /\ ~s.nudgeHistory[1].userResponded
  THEN [s EXCEPT !.nudgeHistory[1].userResponded = TRUE]
  ELSE s

\* markNudgeResponded for the last nudge of the history when it is unanswered
MarkLastNudge(s) ==
  IF Len(s.nudgeHistory) > 0 /\ ~s.nudgeHistory[Len(s.nudgeHistory)].userResponded
  THEN [s EXCEPT !.nudgeHistory[Len(s.nudgeHistory)].userResponded = TRUE]
  ELSE s

\* mutant: updateLastMessageTime is not called
BookkeepingWithoutTime(s, result, now) ==
  LET s1 == PersistUuid(s, result)
      s2 == [s1 EXCEPT !.messageCount = @ + 1]
  IN  MarkLastNudge(s2)

\* the session after the statements between the exchange and deleteMessage
Bookkeeping(s, result, now) ==
  LET s1 == PersistUuid(s, result)
      s2 == [s1 EXCEPT !.messageCount = @ + 1]
      s3 == [s2 EXCEPT !.lastMessageTime = now]
  IN  MarkLastNudge(s3)

\* The locals no statement after the exchange reads (text, the photo, the
\* request, the identifier and the preference read at the start) end with
\* the exchange.
AfterExchange(tr) ==
  [tr EXCEPT !.text = <<>>, !.hasPhoto = FALSE, !.photoBase64 = FALSE,
             !.request = NoRequest, !.currentUuid = NoUuid, !.isNewSession = FALSE,
             !.ttsPreference = "unset"]

\* the exchange returns: the bookkeeping runs and the indicator is deleted
AgentSettled(t, result) ==
  /\ turn[t].pc = "agent"
  /\ result \in AgentResultsOver(ResponseTexts \cup LongTexts, turn[t].mode)
  /\ LET tr == AfterExchange(turn[t])
         p == <<tr.bot, tr.user>>
     IN  /\ sess' = [sess EXCEPT ![p] = Bookkeeping(@, result, clock)]
         /\ rate' = [rate EXCEPT ![p] = @ + 1]
         /\ clock' = clock + 1
         /\ turn' = [turn EXCEPT ![t] =
                       [tr EXCEPT !.pc = "delete", !.result = result,
                                  !.sent = Append(@, [Call("delete_status") EXCEPT !.st = "ignored"])]]
  /\ UNCHANGED <<bots, window, bg>>

\* the chunks onStream takes in one exchange and the milliseconds between
\* two of them in these behaviours
MaxChunks == 4
MaxStreamMs == 3500
StreamSteps == {0, 500, 1000, 1500}
ChunkLengths == {1, 250}

\* streamedText.length > 400 ? streamedText.substring(0, 400) + '...' : streamedText
Preview(len) == IF len > 400 THEN 400 + 3 ELSE len

\* mutant: an edit is made once a full second has passed
OnStreamAtLeast(tr, chunk) ==
  LET tr1 == [tr EXCEPT !.streamedText = @ + chunk, !.chunks = @ + 1]
  IN  IF tr1.now - tr1.lastUpdate >= 1000
      THEN [tr1 EXCEPT !.lastUpdate = tr1.now,
                       !.edits = Append(@, [at |-> tr1.now, preview |-> Preview(tr1.streamedText),
                                            st |-> "pending"])]
      ELSE tr1

\* onStream up to its await: the chunk is appended and, when more than a
\* second has passed since lastUpdate, the indicator is edited to the
\* preview; streamedText is a length, now the milliseconds since the
\* Date.now() that initialised lastUpdate
OnStream(tr, chunk) ==
  LET tr1 == [tr EXCEPT !.streamedText = @ + chunk, !.chunks = @ + 1]
  IN  IF tr1.now - tr1.lastUpdate > 1000
      THEN [tr1 EXCEPT !.lastUpdate = tr1.now,
                       !.edits = Append(@, [at |-> tr1.now, preview |-> Preview(tr1.streamedText),
                                            st |-> "pending"])]
      ELSE tr1

\* the agent streams a chunk of n characters dt milliseconds after the
\* last one: onStream is called in the text exchange
StreamChunk(t, dt, n) ==
  /\ turn[t].pc = "agent" /\ turn[t].mode = "text"
  /\ turn[t].chunks < MaxChunks
  /\ turn[t].now + dt <= MaxStreamMs
  /\ turn' = [turn EXCEPT ![t] = OnStream([@ EXCEPT !.now = @ + dt], n)]
  /\ UNCHANGED <<bots, sess, rate, clock, window, bg>>

\* editMessageText of edit i settles: its failure is caught and ignored
EditSettled(t, i, ok) ==
  /\ i \in DOMAIN turn[t].edits
  /\ turn[t].edits[i].st = "pending"
  /\ turn' = [turn EXCEPT ![t].edits[i].st = IF ok THEN "ok" ELSE "ignored"]
  /\ UNCHANGED <<bots, sess, rate, clock, window, bg>>

\* the exchange throws: the catch block answers
AgentThrew(t) ==
  /\ turn[t].pc = "agent"
  /\ turn' = [turn EXCEPT ![t] = Catch(AfterExchange(@), "agent")]
  /\ UNCHANGED <<bots, sess, rate, clock, window, bg>>

(* --------------------------- final response --------------------------- *)

\* const MAX_LENGTH = 4000
MAX_LENGTH == 4000

\* mutant: a result is accepted on its success flag alone
AcceptedOnSuccess(result) == result.success

\* if (result.success && (result.text || result.imagePath || result.audioPath))
Accepted(result) ==
  result.success /\ (result.text.len > 0 \/ result.imagePath \/ result.audioPath)

\* length of cleanResponse: result.text || '', cut after the last 'User:'
\* and trimmed when that index is > 0
CleanLength(text) ==
  IF text.len > 0 /\ text.userIdx > 0
  THEN text.len - (text.userIdx + 5) - text.pad
  ELSE text.len

HasAudio(tr) == tr.result.audioPath
HasImageFrom2Turn(tr) == tr.result.imagePath
HasImagesFrom1Turn(tr) == tr.generatedImages > 0
HasImages(tr) == HasImageFrom2Turn(tr) \/ HasImagesFrom1Turn(tr)

\* brain.tts?.sendTextToo === true, brain.imageGen?.sendTextToo === true
SendTextTooAudio(brain) == brain.tts.present /\ brain.tts.sendTextToo
SendTextTooImage(brain) == brain.imageGen.present /\ brain.imageGen.sendTextToo

\* mutant: the text always accompanies the media
ShouldSendTextAlways(tr) == TRUE

ShouldSendText(tr) ==
  \/ ~HasAudio(tr) /\ ~HasImages(tr)
  \/ HasAudio(tr) /\ SendTextTooAudio(tr.brain)
  \/ HasImages(tr) /\ SendTextTooImage(tr.brain)

Min(a, b) == IF a <= b THEN a ELSE b

\* const triggerEvery = brain.callToAction.triggerEvery || 5
TriggerEvery(brain) ==
  IF brain.callToAction.triggerEvery # 0 THEN brain.callToAction.triggerEvery ELSE 5

\* mutant: the first message counts whatever sendOnFirstMessage says
ShouldSendCTAOnAnyFirst(brain, metadata) ==
  \/ metadata.messageCount = 1
  \/ metadata.messageCount % TriggerEvery(brain) = 0

\* const shouldSendCTA = metadata && (..): the turn has counted its message,
\* so the session has metadata
ShouldSendCTA(brain, metadata) ==
  \/ brain.callToAction.sendOnFirstMessage /\ metadata.messageCount = 1
  \/ metadata.messageCount % TriggerEvery(brain) = 0

\* the end of the accepted branch, the call-to-action check: cta tells that
\* setTimeout was called
Finish(tr) ==
  [tr EXCEPT !.pc = "done",
             !.cta = /\ tr.brain.callToAction.enabled
                     /\ ShouldSendCTA(tr.brain, sess[<<tr.bot, tr.user>>])]

\* the timers after a step of a turn: the one setTimeout has made is pending
Schedule(tr) ==
  IF tr.cta
  THEN Append(timers, [bot |-> tr.bot, user |-> tr.user, st |-> "waiting",
                       messageCount |-> sess[<<tr.bot, tr.user>>].messageCount,
                       image |-> tr.brain.callToAction.image, late |-> FALSE])
  ELSE timers

\* the delay is over: the callback sends the photo with the caption, or the
\* message with the link preview, on the bot handle its closure holds; late
\* notes that the callback ran after stopAll had completed
TimerFires(i) ==
  /\ i \in DOMAIN timers
  /\ timers[i].st = "waiting"
  /\ timers' = [timers EXCEPT ![i].st = IF timers[i].image THEN "photo" ELSE "message",
                              ![i].late = recov.stop = "done"]
  /\ UNCHANGED <<bots, sess, rate, turn, clock, window, recov, nudges>>

\* the send of the callback settles; its failure is caught and logged
CtaSettled(i, ok) ==
  /\ i \in DOMAIN timers
  /\ timers[i].st \in {"photo", "message"}
  /\ timers' = [timers EXCEPT ![i].st = IF ok THEN @ \o "_sent" ELSE "failed"]
  /\ UNCHANGED <<bots, sess, rate, turn, clock, window, recov, nudges>>

\* if (shouldSendText): the whole response when it fits, else its first chunk
TextStage(tr) ==
  IF ShouldSendText(tr)
  THEN IF tr.clean <= MAX_LENGTH
       THEN [tr EXCEPT !.pc = "text", !.idx = 0,
                       !.sent = Append(@, Sent("text", 0, tr.clean, ""))]
       ELSE [tr EXCEPT !.pc = "text", !.idx = 0,
                       !.sent = Append(@, Sent("text", 0, Min(MAX_LENGTH, tr.clean), ""))]
  ELSE Finish(tr)

\* for (const imagePath of result.generatedImages): the send of image idx
ToolImageStage(tr, idx) ==
  IF idx <= tr.generatedImages
  THEN [tr EXCEPT !.pc = "tool_image", !.idx = idx,
                  !.sent = Append(@, Sent("photo", idx, 0, ""))]
  ELSE TextStage(tr)

\* if (hasImages): the two-step image first, then the tool images
ImagesStage(tr) ==
  IF HasImages(tr)
  THEN IF HasImageFrom2Turn(tr)
       THEN [tr EXCEPT !.pc = "image", !.sent = Append(@, Sent("photo", 0, 0, ""))]
       ELSE ToolImageStage(tr, 1)
  ELSE TextStage(tr)

\* if (hasAudio) sendVoice
AudioStage(tr) ==
  IF HasAudio(tr)
  THEN [tr EXCEPT !.pc = "voice", !.sent = Append(@, Call("voice"))]
  ELSE ImagesStage(tr)

\* the if / else after deleteMessage: the response, or the agent-error reply
Dispatch(tr) ==
  IF Accepted(tr.result)
  THEN AudioStage([tr EXCEPT !.accepted = TRUE, !.clean = CleanLength(tr.result.text)])
  ELSE [tr EXCEPT !.pc = "agent_error",
                  !.sent = Append(@, Sent("agent_error", 0, 0,
                                          IF tr.result.error # "" THEN tr.result.error
                                          ELSE "Unknown error"))]

\* deleteMessage settles; its failure is swallowed
DeleteSettled(t) ==
  /\ turn[t].pc = "delete"
  /\ turn' = [turn EXCEPT ![t] = Dispatch(@)]
  /\ timers' = Schedule(turn'[t])
  /\ UNCHANGED <<bots, sess, rate, clock, window, recov, nudges>>

\* mutant: a failed sendVoice is not caught locally
VoiceSettledUncaught(t, ok) ==
  /\ turn[t].pc = "voice"
  /\ LET tr == [turn[t] EXCEPT !.sent = Settle(@, ok)]
     IN  turn' = [turn EXCEPT ![t] = IF ok THEN ImagesStage(tr) ELSE Catch(tr, "send")]
  /\ timers' = Schedule(turn'[t])
  /\ UNCHANGED <<bots, sess, rate, clock, window, recov, nudges>>

\* sendVoice settles: on failure the text is sent instead
VoiceSettled(t, ok) ==
  /\ turn[t].pc = "voice"
  /\ LET tr == [turn[t] EXCEPT !.sent = Settle(@, ok)]
     IN  turn' = [turn EXCEPT ![t] =
                    IF ok THEN ImagesStage(tr)
                    ELSE [tr EXCEPT !.pc = "fallback",
                                    !.sent = Append(@, Sent("fallback_text", 0, tr.clean, ""))]]
  /\ timers' = Schedule(turn'[t])
  /\ UNCHANGED <<bots, sess, rate, clock, window, recov, nudges>>

\* the fallback text settles; its failure reaches the catch block
FallbackSettled(t, ok) ==
  /\ turn[t].pc = "fallback"
  /\ LET tr == [turn[t] EXCEPT !.sent = Settle(@, ok)]
     IN  turn' = [turn EXCEPT ![t] = IF ok THEN ImagesStage(tr) ELSE Catch(tr, "send")]
  /\ timers' = Schedule(turn'[t])
  /\ UNCHANGED <<bots, sess, rate, clock, window, recov, nudges>>

\* the two-step image settles; a failure is logged
ImageSettled(t, ok) ==
  /\ turn[t].pc = "image"
  /\ LET tr == [turn[t] EXCEPT !.sent = Settle(@, ok)]
     IN  turn' = [turn EXCEPT ![t] =
                    IF HasImagesFrom1Turn(tr) THEN ToolImageStage(tr, 1) ELSE TextStage(tr)]
  /\ timers' = Schedule(turn'[t])
  /\ UNCHANGED <<bots, sess, rate, clock, window, recov, nudges>>

\* one tool image settles; a failure is logged and the loop goes on
ToolImageSettled(t, ok) ==
  /\ turn[t].pc = "tool_image"
  /\ LET tr == [turn[t] EXCEPT !.sent = Settle(@, ok)]
     IN  turn' = [turn EXCEPT ![t] = ToolImageStage(tr, tr.idx + 1)]
  /\ timers' = Schedule(turn'[t])
  /\ UNCHANGED <<bots, sess, rate, clock, window, recov, nudges>>

\* mutant: the loop steps one character past the chunk it has sent
TextSettledSkipping(t, ok) ==
  /\ turn[t].pc = "text"
  /\ LET tr == [turn[t] EXCEPT !.sent = Settle(@, ok)]
         i == tr.idx + MAX_LENGTH + 1
     IN  turn' = [turn EXCEPT ![t] =
                    IF ~ok THEN Catch(tr, "send")
                    ELSE IF tr.clean > MAX_LENGTH /\ i < tr.clean
                         THEN [tr EXCEPT !.idx = i,
                                         !.sent = Append(@, Sent("text", i,
                                                    Min(MAX_LENGTH, tr.clean - i), ""))]
                         ELSE Finish(tr)]
  /\ timers' = Schedule(turn'[t])
  /\ UNCHANGED <<bots, sess, rate, clock, window, recov, nudges>>

\* one text message settles: the next chunk, the end, or the catch block
TextSettled(t, ok) ==
  /\ turn[t].pc = "text"
  /\ LET tr == [turn[t] EXCEPT !.sent = Settle(@, ok)]
         i == tr.idx + MAX_LENGTH
     IN  turn' = [turn EXCEPT ![t] =
                    IF ~ok THEN Catch(tr, "send")
                    ELSE IF tr.clean > MAX_LENGTH /\ i < tr.clean
                         THEN [tr EXCEPT !.idx = i,
                                         !.sent = Append(@, Sent("text", i,
                                                    Min(MAX_LENGTH, tr.clean - i), ""))]
                         ELSE Finish(tr)]
  /\ timers' = Schedule(turn'[t])
  /\ UNCHANGED <<bots, sess, rate, clock, window, recov, nudges>>

\* the agent-error reply settles; its failure reaches the catch block
AgentErrorSettled(t, ok) ==
  /\ turn[t].pc = "agent_error"
  /\ LET tr == [turn[t] EXCEPT !.sent = Settle(@, ok)]
     IN  turn' = [turn EXCEPT ![t] = IF ok THEN [tr EXCEPT !.pc = "done"] ELSE Catch(tr, "send")]
  /\ UNCHANGED <<bots, sess, rate, clock, window, bg>>

\* the apology of the catch block settles; its failure is swallowed
ApologySettled(t, ok) ==
  /\ turn[t].pc = "apology"
  /\ turn' = [turn EXCEPT ![t].pc = "done", ![t].sent = Settle(@, ok)]
  /\ UNCHANGED <<bots, sess, rate, clock, window, bg>>

(* ---------------------------- health monitor -------------------------- *)
\* recov.calls counts the recoverBot invocations per bot, recov.fails the
\* consecutive health checks that found the bot not polling, and
\* recov.running holds the invocations suspended at an await.

\* mutant: a bot that is not polling is recovered on every check
CheckBotEveryTime(info, throws) ==
  IF throws
  THEN [info |-> [info EXCEPT !.errorCount = @ + 1], recover |-> info.errorCount + 1 >= 3]
  ELSE IF info.polling /\ info.status # "healthy"
  THEN [info |-> [info EXCEPT !.status = "healthy", !.errorCount = 0], recover |-> FALSE]
  ELSE IF ~info.polling
  THEN [info |-> [info EXCEPT !.status = "unhealthy"], recover |-> TRUE]
  ELSE [info |-> info, recover |-> FALSE]

\* the body of the loop of performHealthChecks for one bot: the botInfo after
\* it and whether recoverBot was called; throws tells that the check threw
CheckBot(info, throws) ==
  IF throws
  THEN [info |-> [info EXCEPT !.errorCount = @ + 1], recover |-> info.errorCount + 1 >= 3]
  ELSE IF info.polling /\ info.status # "healthy"
  THEN [info |-> [info EXCEPT !.status = "healthy", !.errorCount = 0], recover |-> FALSE]
  ELSE IF ~info.polling /\ info.status # "unhealthy"
  THEN [info |-> [info EXCEPT !.status = "unhealthy"], recover |-> TRUE]
  ELSE [info |-> info, recover |-> FALSE]

\* recoverBot up to its first await: the invocation holds the channel it stops
Invocation(b) ==
  [bot |-> b, id |-> recov.calls[b] + 1, channel |-> bots[b].channel, pc |-> "stopping"]

\* setInterval fires: performHealthChecks goes through the registry; the
\* interval fires no more once stopAll has cleared it
HealthTick(thr) ==
  /\ recov.stop = "idle"
  /\ \A b \in DOMAIN bots :
       /\ thr[b] => bots[b].errorCount < MaxErrors
       /\ CheckBot(bots[b], thr[b]).recover => recov.calls[b] < MaxRecoveries
  /\ bots' = [b \in DOMAIN bots |-> CheckBot(bots[b], thr[b]).info]
  /\ recov' =
       [recov EXCEPT
        !.calls = [b \in BotIds |->
                    IF b \in DOMAIN bots /\ CheckBot(bots[b], thr[b]).recover
                    THEN recov.calls[b] + 1 ELSE recov.calls[b]],
        !.fails = [b \in BotIds |->
                    IF b \notin DOMAIN bots \/ thr[b] THEN recov.fails[b]
                    ELSE IF bots[b].polling THEN 0
                    ELSE IF recov.fails[b] < 3 THEN recov.fails[b] + 1 ELSE 3],
        !.running = recov.running \cup
                    {Invocation(b) : b \in {x \in DOMAIN bots : CheckBot(bots[x], thr[x]).recover}}]
  /\ UNCHANGED <<sess, rate, turn, clock, window, timers, nudges>>

\* mutant: the catch block of recoverBot only logs
RecoveryFailedLogged(r) ==
  /\ bots' = bots
  /\ recov' = [recov EXCEPT !.running = @ \ {r}]

\* the botInfo object of bot b: in the registry, or removed from it by
\* bots.clear() and still referenced by the invocations that hold it
BotInfo(b) == IF b \in DOMAIN bots THEN bots[b] ELSE recov.detached[b]

\* an invocation of recoverBot writes info to the botInfo it holds and goes
\* on as the invocations of running
StoreInfo(b, info, running) ==
  IF b \in DOMAIN bots
  THEN /\ bots' = [bots EXCEPT ![b] = info]
       /\ recov' = [recov EXCEPT !.running = running]
  ELSE /\ bots' = bots
       /\ recov' = [recov EXCEPT !.running = running, !.detached[b] = info]

\* the catch block of recoverBot: the botInfo the invocation holds is failed
RecoveryFailed(r) ==
  StoreInfo(r.bot, [BotInfo(r.bot) EXCEPT !.status = "failed"], recov.running \ {r})

\* bot.stopPolling() settles: the wait of two seconds starts, or the catch
RecoverStopSettled(r, ok) ==
  /\ r \in recov.running /\ r.pc = "stopping"
  /\ IF ok
     THEN StoreInfo(r.bot,
                    IF BotInfo(r.bot).channel = r.channel
                    THEN [BotInfo(r.bot) EXCEPT !.polling = FALSE] ELSE BotInfo(r.bot),
                    (recov.running \ {r}) \cup {[r EXCEPT !.pc = "waiting"]})
     ELSE RecoveryFailed(r)
  /\ UNCHANGED <<sess, rate, turn, clock, window, timers, nudges>>

\* the wait is over: a new TelegramBot is made and bound, the botInfo gets
\* it with status healthy and errorCount 0; or the constructor throws
RecoverWaited(r, ok) ==
  /\ r \in recov.running /\ r.pc = "waiting"
  /\ IF ok
     THEN StoreInfo(r.bot,
                    [BotInfo(r.bot) EXCEPT !.channel = @ + 1, !.polling = TRUE,
                                           !.status = "healthy", !.errorCount = 0],
                    recov.running \ {r})
     ELSE RecoveryFailed(r)
  /\ UNCHANGED <<sess, rate, turn, clock, window, timers, nudges>>

\* 'polling_error' of the channel: handleBotError
ChannelError(b) ==
  /\ b \in DOMAIN bots
  /\ bots[b].errorCount < MaxErrors
  /\ bots' = [bots EXCEPT ![b].errorCount = @ + 1,
                          ![b].status = IF bots[b].errorCount + 1 >= 5 THEN "unhealthy" ELSE @]
  /\ UNCHANGED <<sess, rate, turn, clock, window, bg>>

\* the channel of a bot stops polling on its own
ChannelStops(b) ==
  /\ b \in DOMAIN bots
  /\ bots[b].polling
  /\ bots' = [bots EXCEPT ![b].polling = FALSE]
  /\ UNCHANGED <<sess, rate, turn, clock, window, bg>>

(* ----------------------------- NudgeManager --------------------------- *)

\* a trigger of brain.nudges.triggers
Trigger(delayHours, condition, stopSequence) ==
  [delayHours |-> delayHours, condition |-> condition, stopSequence |-> stopSequence]

NoTrigger == Trigger(0, "none", FALSE)

\* triggers.filter(..): past the delay, not sent yet, condition supported
Eligible(trigger, hoursSinceLastMessage, lastNudgeSent) ==
  /\ ~(hoursSinceLastMessage < trigger.delayHours)
  /\ ~(trigger.delayHours <= lastNudgeSent)
  /\ trigger.condition = "no_user_message"

\* mutant: the latest eligible trigger is returned
GetLatestNudgeTrigger(triggers, hoursSinceLastMessage, lastNudgeSent) ==
  LET eligibleTriggers ==
        SelectSeq(triggers, LAMBDA x : Eligible(x, hoursSinceLastMessage, lastNudgeSent))
      first == CHOOSE i \in 1..Len(eligibleTriggers) :
                 /\ \A j \in 1..Len(eligibleTriggers) :
                      eligibleTriggers[j].delayHours <= eligibleTriggers[i].delayHours
                 /\ \A j \in 1..(i - 1) :
                      eligibleTriggers[j].delayHours # eligibleTriggers[i].delayHours
  IN  IF Len(eligibleTriggers) = 0 THEN NoTrigger ELSE eligibleTriggers[first]

\* getNextNudgeTrigger: the eligible triggers sorted by delayHours (a stable
\* sort), the first of them, or null
GetNextNudgeTrigger(triggers, hoursSinceLastMessage, lastNudgeSent) ==
  LET eligibleTriggers ==
        SelectSeq(triggers, LAMBDA x : Eligible(x, hoursSinceLastMessage, lastNudgeSent))
      first == CHOOSE i \in 1..Len(eligibleTriggers) :
                 /\ \A j \in 1..Len(eligibleTriggers) :
                      eligibleTriggers[i].delayHours <= eligibleTriggers[j].delayHours
                 /\ \A j \in 1..(i - 1) :
                      eligibleTriggers[j].delayHours # eligibleTriggers[i].delayHours
  IN  IF Len(eligibleTriggers) = 0 THEN NoTrigger ELSE eligibleTriggers[first]

\* metadata.lastNudgeSent || 0: the delay of the nudge recorded last
LastNudgeSent(s) ==
  IF Len(s.nudgeHistory) = 0 THEN 0 ELSE s.nudgeHistory[Len(s.nudgeHistory)].delayHours

\* SessionManager.recordNudge(botId, userId, nudgeData)
RecordNudge(s, cycle, now) ==
  [s EXCEPT !.nudgeHistory =
     Append(@, [timestamp |-> now, delayHours |-> cycle.delayHours,
                userResponded |-> FALSE, stopSequence |-> cycle.stopSequence])]

\* (Date.now() - metadata.lastMessageTime) in hours
HoursSince(s) == clock - s.lastMessageTime

\* The loops of checkNudges from the pair at the head of todo: a pair whose
\* check returns without awaiting is passed; the cycle stops at the first
\* pair for which the agent is asked for a message, or at the end.  A pair
\* with user 0 stands for a bot whose getAllUsersForBot call throws: the
\* call is outside the try block of the inner loop, so checkNudges rejects.
RECURSIVE Scan(_, _)
Scan(ss, todo) ==
  IF todo = <<>> THEN IdleCycle
  ELSE LET b == Head(todo)[1]
           u == Head(todo)[2]
           s == ss[<<b, u>>]
           trigger == GetNextNudgeTrigger(bots[b].brain.nudges.triggers, HoursSince(s),
                                          LastNudgeSent(s))
       IN  IF b \notin DOMAIN bots \/ ~bots[b].brain.nudges.enabled
           THEN Scan(ss, Tail(todo))
           ELSE IF u = 0 THEN IdleCycle
           ELSE IF s.lastMessageTime = 0 \/ trigger = NoTrigger \/ s.currentUuid = NoUuid
           THEN Scan(ss, Tail(todo))
           ELSE [IdleCycle EXCEPT !.pc = "generate", !.todo = Tail(todo), !.bot = b, !.user = u,
                                  !.delayHours = trigger.delayHours,
                                  !.stopSequence = trigger.stopSequence]

\* the pairs a cycle goes through: the bots of the registry, their users
ScanOrder ==
  LET ids == {b \in DOMAIN bots : TRUE}
      order == CHOOSE q \in [1..Cardinality(ids) -> ids] :
                 \A i, j \in 1..Cardinality(ids) : i < j => q[i] # q[j]
  IN  [i \in 1..Cardinality(ids) |-> <<order[i], 1>>]

\* the pairs of a cycle in which getAllUsersForBot throws for the bots of thr
Listing(thr) ==
  [i \in DOMAIN ScanOrder |->
     IF ScanOrder[i][1] \in thr THEN <<ScanOrder[i][1], 0>> ELSE ScanOrder[i]]

\* setInterval fires: checkNudges runs up to its first agent call
NudgeTick(c, thr) ==
  /\ nudges.cycles[c].pc = "done"
  /\ \A x \in NudgeSlots : x < c => nudges.cycles[x].pc # "done"
  /\ nudges.started < MaxCycles
  /\ nudges' = [nudges EXCEPT !.cycles[c] = Scan(sess, Listing(thr)), !.started = @ + 1]
  /\ UNCHANGED <<bots, sess, rate, turn, clock, window, recov, timers>>

\* mutant: the preference of the user decides as it does in a turn
StartSendWithPreference(cycle) ==
  IF cycle.bot \notin DOMAIN bots THEN Scan(sess, cycle.todo)
  ELSE IF TtsEnabled(bots[cycle.bot].brain, sess[<<cycle.bot, cycle.user>>].ttsPreference)
            /\ sess[<<cycle.bot, cycle.user>>].currentUuid # NoUuid
       THEN [cycle EXCEPT !.pc = "tts"]
       ELSE [cycle EXCEPT !.pc = "send", !.modality = "text"]

\* sendNudge up to its first await: the audio is asked for when the brain
\* speaks and the session has an identifier, else the text is sent
StartSend(cycle) ==
  IF cycle.bot \notin DOMAIN bots THEN Scan(sess, cycle.todo)
  ELSE IF BrainTtsDefault(bots[cycle.bot].brain)
            /\ sess[<<cycle.bot, cycle.user>>].currentUuid # NoUuid
       THEN [cycle EXCEPT !.pc = "tts"]
       ELSE [cycle EXCEPT !.pc = "send", !.modality = "text"]

\* mutant: the nudge is recorded although no message was generated
NudgeGeneratedRecording(c, outcome) ==
  /\ nudges.cycles[c].pc = "generate"
  /\ LET cycle == nudges.cycles[c]
     IN  IF outcome = "text"
         THEN /\ nudges' = [nudges EXCEPT !.cycles[c] = StartSend(@)]
              /\ sess' = sess
         ELSE /\ sess' = [sess EXCEPT ![<<cycle.bot, cycle.user>>] = RecordNudge(@, cycle, clock)]
              /\ nudges' = [nudges EXCEPT !.cycles[c] = Scan(sess', cycle.todo),
                                          !.aborted = @ + 1]
  /\ UNCHANGED <<bots, rate, turn, clock, window, recov, timers>>

\* generateNudgeMessage settles: a thrown call or an empty text ends the
\* nudge of this user for the cycle
NudgeGenerated(c, outcome) ==
  /\ nudges.cycles[c].pc = "generate"
  /\ IF outcome = "text"
     THEN nudges' = [nudges EXCEPT !.cycles[c] = StartSend(@)]
     ELSE nudges' = [nudges EXCEPT !.cycles[c] = Scan(sess, @.todo), !.aborted = @ + 1]
  /\ UNCHANGED <<bots, sess, rate, turn, clock, window, recov, timers>>

\* generateTTSForNudge settles: the voice when there is audio, else the text
NudgeTtsSettled(c, outcome) ==
  /\ nudges.cycles[c].pc = "tts"
  /\ nudges' = [nudges EXCEPT !.cycles[c] =
                   [@ EXCEPT !.pc = "send",
                             !.modality = IF outcome = "audio" THEN "voice" ELSE "text"]]
  /\ UNCHANGED <<bots, sess, rate, turn, clock, window, recov, timers>>

\* sendVoice / sendMessage settles: a failure ends sendNudge in its catch;
\* after a delivery the note is injected when the session has an identifier,
\* else the nudge is recorded at once
NudgeSendSettled(c, ok) ==
  /\ nudges.cycles[c].pc = "send"
  /\ LET cycle == nudges.cycles[c]
         p == <<cycle.bot, cycle.user>>
         delivery == [bot |-> cycle.bot, user |-> cycle.user, delayHours |-> cycle.delayHours,
                      modality |-> cycle.modality, since |-> sess[p].lastMessageTime]
     IN  IF ~ok
         THEN /\ nudges' = [nudges EXCEPT !.cycles[c] = Scan(sess, cycle.todo)]
              /\ sess' = sess
         ELSE IF sess[p].currentUuid # NoUuid
         THEN /\ nudges' = [nudges EXCEPT !.cycles[c].pc = "note",
                                          !.delivered = Append(@, delivery)]
              /\ sess' = sess
         ELSE /\ sess' = [sess EXCEPT ![p] = RecordNudge(@, cycle, clock)]
              /\ nudges' = [nudges EXCEPT !.cycles[c] = Scan(sess', cycle.todo),
                                          !.delivered = Append(@, delivery)]
  /\ UNCHANGED <<bots, rate, turn, clock, window, recov, timers>>

\* the system note settles: the nudge is recorded, or the catch block logs
NudgeNoteSettled(c, ok) ==
  /\ nudges.cycles[c].pc = "note"
  /\ LET cycle == nudges.cycles[c]
         p == <<cycle.bot, cycle.user>>
     IN  /\ sess' = IF ok THEN [sess EXCEPT ![p] = RecordNudge(@, cycle, clock)] ELSE sess
         /\ nudges' = [nudges EXCEPT !.cycles[c] = Scan(sess', cycle.todo)]
  /\ UNCHANGED <<bots, rate, turn, clock, window, recov, timers>>

\* hours go by; no exchange with the agent or the channel lasts that long
TimePasses(d) ==
  /\ \A t \in Slots : Finished(turn[t])
  /\ \A c \in NudgeSlots : nudges.cycles[c].pc = "done"
  /\ clock + d <= MaxHours
  /\ clock' = clock + d
  /\ UNCHANGED <<bots, sess, rate, turn, window, bg>>

(* ------------------------------- stopAll ------------------------------ *)

\* mutant: stopAll also cancels the call-to-action timers that still wait
StopAllSettledCancelling(ok) ==
  /\ recov.stop = "stopping"
  /\ LET b == Head(recov.todo)
         rest == Tail(recov.todo)
         stopped == IF ok /\ bots[b].channel = recov.held
                    THEN [bots EXCEPT ![b].polling = FALSE] ELSE bots
     IN  IF rest # <<>>
         THEN /\ bots' = stopped
              /\ recov' = [recov EXCEPT !.todo = rest, !.held = stopped[Head(rest)].channel]
         ELSE /\ bots' = [x \in {} |-> x]
              /\ recov' = [recov EXCEPT !.stop = "done", !.todo = <<>>, !.held = 0,
                                        !.detached = stopped]
  /\ timers' = [i \in DOMAIN timers |->
                  IF timers[i].st = "waiting" THEN [timers[i] EXCEPT !.st = "failed"]
                  ELSE timers[i]]
  /\ UNCHANGED <<sess, rate, turn, clock, window, nudges>>

\* stopAll up to its first await: the health interval is cleared and the
\* loop over the registry calls stopPolling() on the channel of its first
\* bot; with an empty registry it ends at once
StopAllStart ==
  /\ recov.stop = "idle"
  /\ IF DOMAIN bots = {}
     THEN recov' = [recov EXCEPT !.stop = "done"]
     ELSE recov' = [recov EXCEPT !.stop = "stopping",
                                 !.todo = [i \in DOMAIN ScanOrder |-> ScanOrder[i][1]],
                                 !.held = bots[ScanOrder[1][1]].channel]
  /\ UNCHANGED <<bots, sess, rate, turn, clock, window, timers, nudges>>

\* the stopPolling() of the loop settles, its failure is caught and logged;
\* the loop goes to the next bot, or bots.clear() empties the registry
StopAllSettled(ok) ==
  /\ recov.stop = "stopping"
  /\ LET b == Head(recov.todo)
         rest == Tail(recov.todo)
         stopped == IF ok /\ bots[b].channel = recov.held
                    THEN [bots EXCEPT ![b].polling = FALSE] ELSE bots
     IN  IF rest # <<>>
         THEN /\ bots' = stopped
              /\ recov' = [recov EXCEPT !.todo = rest, !.held = stopped[Head(rest)].channel]
         ELSE /\ bots' = [x \in {} |-> x]
              /\ recov' = [recov EXCEPT !.stop = "done", !.todo = <<>>, !.held = 0,
                                        !.detached = stopped]
  /\ UNCHANGED <<sess, rate, turn, clock, window, timers, nudges>>

(* ------------------------------ behaviours ---------------------------- *)

ToolNames == {"mcp__image-gen__generate_image", "mcp__tts__speak"}
ToolPayloads == {"image", "failed", "unparsable"}

Next ==
  \/ \E t \in Slots, b \in DOMAIN bots, u \in Users, msg \in Messages : Receive(t, b, u, msg)
  \/ \E t \in Slots, ok \in BOOLEAN : LimitNoticeSettled(t, ok)
  \/ \E t \in Slots, ok \in BOOLEAN : CommandSettled(t, ok)
  \/ \E t \in Slots, ok \in BOOLEAN : ThinkingSettled(t, ok)
  \/ \E t \in Slots, ok \in BOOLEAN : PhotoSettled(t, ok)
  \/ \E t \in Slots, n \in ToolNames, r \in ToolPayloads : ToolResult(t, n, r)
  \/ \E t \in Slots : Turn2Start(t)
  \/ \E t \in Slots, r \in AgentResults("tts") \cup AgentResults("image") : AgentSettled(t, r)
  \/ \E t \in Slots : AgentThrew(t)
  \/ \E t \in Slots : DeleteSettled(t)
  \/ \E t \in Slots, ok \in BOOLEAN : VoiceSettled(t, ok)
  \/ \E t \in Slots, ok \in BOOLEAN : FallbackSettled(t, ok)
  \/ \E t \in Slots, ok \in BOOLEAN : ImageSettled(t, ok)
  \/ \E t \in Slots, ok \in BOOLEAN : ToolImageSettled(t, ok)
  \/ \E t \in Slots, ok \in BOOLEAN : TextSettled(t, ok)
  \/ \E t \in Slots, ok \in BOOLEAN : AgentErrorSettled(t, ok)
  \/ \E t \in Slots, ok \in BOOLEAN : ApologySettled(t, ok)

Spec == Init /\ [][Next]_vars

(* Long responses: the turns of a bot without media and of a bot that       *)
(* speaks and sends the text too, with response texts around the threshold. *)

ChunkFleet ==
  { <<"therapist", Brain(NoSection, NoSection, "false")>>,
    <<"cartooned", Brain(NoSection, [present |-> TRUE, enabled |-> "true", sendTextToo |-> TRUE],
                         "false")>> }

InitChunk == \E f \in ChunkFleet : InitWith({f})

NextChunk ==
  \/ \E t \in Slots, b \in DOMAIN bots, u \in Users : Receive(t, b, u, TextMsg(<<"h", "i">>))
  \/ \E t \in Slots, ok \in BOOLEAN : LimitNoticeSettled(t, ok)
  \/ \E t \in Slots, ok \in BOOLEAN : ThinkingSettled(t, ok)
  \/ \E t \in Slots : Turn2Start(t)
  \/ \E t \in Slots, r \in AgentResultsOver(LongTexts, "tts") : AgentSettled(t, r)
  \/ \E t \in Slots : AgentThrew(t)
  \/ \E t \in Slots : DeleteSettled(t)
  \/ \E t \in Slots, ok \in BOOLEAN : VoiceSettled(t, ok)
  \/ \E t \in Slots, ok \in BOOLEAN : FallbackSettled(t, ok)
  \/ \E t \in Slots, ok \in BOOLEAN : TextSettled(t, ok)
  \/ \E t \in Slots, ok \in BOOLEAN : AgentErrorSettled(t, ok)
  \/ \E t \in Slots, ok \in BOOLEAN : ApologySettled(t, ok)

SpecChunk == InitChunk /\ [][NextChunk]_vars

(* Call to action: the turns of a bot whose brain has a callToAction        *)
(* section, and the timers they leave behind.                               *)

CallToAction(enabled, sendOnFirst, triggerEvery, image) ==
  [enabled |-> enabled, sendOnFirstMessage |-> sendOnFirst, triggerEvery |-> triggerEvery,
   image |-> image]

CtaBrain(cta) == [Brain(NoSection, NoSection, "false") EXCEPT !.callToAction = cta]

CtaFleet ==
  { <<"therapist", CtaBrain(cta)>> :
      cta \in { CallToAction(TRUE, TRUE, 2, FALSE), CallToAction(TRUE, FALSE, 2, TRUE),
                CallToAction(TRUE, TRUE, 0, FALSE), CallToAction(TRUE, FALSE, 3, FALSE),
                CallToAction(FALSE, TRUE, 1, TRUE) } }

InitCta == \E f \in CtaFleet : InitWith({f})

NextCta ==
  \/ \E t \in Slots, b \in DOMAIN bots, u \in Users :
       Receive(t, b, u, TextMsg(<<"h", "i">>))
  \/ \E t \in Slots, ok \in BOOLEAN : LimitNoticeSettled(t, ok)
  \/ \E t \in Slots, ok \in BOOLEAN : ThinkingSettled(t, ok)
  \/ \E t \in Slots, r \in AgentResults("text") : AgentSettled(t, r)
  \/ \E t \in Slots : AgentThrew(t)
  \/ \E t \in Slots : DeleteSettled(t)
  \/ \E t \in Slots, ok \in BOOLEAN : TextSettled(t, ok)
  \/ \E t \in Slots, ok \in BOOLEAN : AgentErrorSettled(t, ok)
  \/ \E t \in Slots, ok \in BOOLEAN : ApologySettled(t, ok)
  \/ \E i \in DOMAIN timers : TimerFires(i)
  \/ \E i \in DOMAIN timers, ok \in BOOLEAN : CtaSettled(i, ok)

SpecCta == InitCta /\ [][NextCta]_vars

(* Health: two bots, the health timer, the recoveries it starts and the     *)
(* events of their channels.                                                *)

InitHealth ==
  InitWith({ <<"cartooned", Brain(NoSection, NoSection, "false")>>,
             <<"therapist", Brain(NoSection, NoSection, "undefined")>> })

NextHealth ==
  \/ \E thr \in [DOMAIN bots -> BOOLEAN] : HealthTick(thr)
  \/ \E r \in recov.running, ok \in BOOLEAN : RecoverStopSettled(r, ok)
  \/ \E r \in recov.running, ok \in BOOLEAN : RecoverWaited(r, ok)
  \/ \E b \in BotIds : ChannelError(b)
  \/ \E b \in BotIds : ChannelStops(b)

SpecHealth == InitHealth /\ [][NextHealth]_vars

(* Health of one bot over time: setInterval keeps calling                   *)
(* performHealthChecks every 30 seconds, so a health tick whose checks do   *)
(* not throw keeps happening; nothing else is bound to happen.              *)

InitHealthOne == InitWith({ <<"cartooned", Brain(NoSection, NoSection, "false")>> })

SpecHealthLive ==
  /\ InitHealthOne
  /\ [][NextHealth]_vars
  /\ WF_vars(HealthTick([b \in DOMAIN bots |-> FALSE]))

(* Nudges: one bot whose brain has nudges enabled, its user's turns, the     *)
(* scan cycles of the NudgeManager and the hours that go by.                 *)

TriggerLists ==
  { <<Trigger(24, "no_user_message", FALSE), Trigger(72, "no_user_message", TRUE)>>,
    <<Trigger(72, "no_user_message", TRUE), Trigger(24, "no_user_message", FALSE)>>,
    <<Trigger(24, "user_left", FALSE), Trigger(72, "no_user_message", TRUE)>> }

\* a brain with nudges, speaking or not
NudgeBrain(tts, triggers) ==
  [Brain(NoSection, tts, "false") EXCEPT !.nudges = [enabled |-> TRUE, triggers |-> triggers]]

NudgeFleet ==
  { <<"therapist", NudgeBrain(NoSection, l)>> : l \in TriggerLists }
  \cup
  { <<"therapist", NudgeBrain([present |-> TRUE, enabled |-> "true", sendTextToo |-> FALSE],
                              <<Trigger(24, "no_user_message", FALSE),
                                Trigger(72, "no_user_message", TRUE)>>)>> }

InitNudge == \E f \in NudgeFleet : InitWith({f})

\* what the exchange of a turn returns in these behaviours
NudgeTurnResults ==
  { [success |-> TRUE, text |-> [len |-> 12, userIdx |-> 3, pad |-> 1], audioPath |-> a,
     imagePath |-> FALSE, sessionId |-> sid, error |-> ""] :
      a \in BOOLEAN, sid \in {"s1", NoUuid} }
  \cup
  { [success |-> FALSE, text |-> NoText, audioPath |-> FALSE, imagePath |-> FALSE,
     sessionId |-> NoUuid, error |-> ""] }

HourSteps == {23, 56}

NextNudge ==
  \/ \E t \in Slots, b \in DOMAIN bots, u \in Users, txt \in {<<"h", "i">>, CmdTts} :
       Receive(t, b, u, TextMsg(txt))
  \/ \E t \in Slots, ok \in BOOLEAN : LimitNoticeSettled(t, ok)
  \/ \E t \in Slots : CommandSettled(t, TRUE)
  \/ \E t \in Slots : ThinkingSettled(t, TRUE)
  \/ \E t \in Slots : Turn2Start(t)
  \/ \E t \in Slots, r \in NudgeTurnResults : AgentSettled(t, r)
  \/ \E t \in Slots : DeleteSettled(t)
  \/ \E t \in Slots, ok \in BOOLEAN : VoiceSettled(t, ok)
  \/ \E t \in Slots : FallbackSettled(t, TRUE)
  \/ \E t \in Slots : TextSettled(t, TRUE)
  \/ \E t \in Slots : AgentErrorSettled(t, TRUE)
  \/ \E t \in Slots : ApologySettled(t, TRUE)
  \/ \E c \in NudgeSlots : NudgeTick(c, {})
  \/ \E c \in NudgeSlots, o \in {"text", "empty", "throws"} : NudgeGenerated(c, o)
  \/ \E c \in NudgeSlots, o \in {"audio", "none", "throws"} : NudgeTtsSettled(c, o)
  \/ \E c \in NudgeSlots, ok \in BOOLEAN : NudgeSendSettled(c, ok)
  \/ \E c \in NudgeSlots, ok \in BOOLEAN : NudgeNoteSettled(c, ok)
  \/ \E d \in HourSteps : TimePasses(d)

SpecNudge == InitNudge /\ [][NextNudge]_vars

(* Overlapping turns: the channel emits the next message of a user while   *)
(* the handler of the previous one is suspended.                            *)

InitRace ==
  /\ bots = [b \in {"therapist"} |-> NewBot(Brain(NoSection, NoSection, "undefined"))]
  /\ sess = [p \in Pairs |-> NewSession]
  /\ rate = [p \in Pairs |-> 0]
  /\ turn = [t \in Slots |-> IdleTurn]
  /\ clock = 1
  /\ window = 2
  /\ InitBackground

NextRace ==
  \/ \E t \in Slots, b \in DOMAIN bots, u \in Users, txt \in {<<"h", "i">>, CmdReset} :
       Receive(t, b, u, TextMsg(txt))
  \/ \E t \in Slots : LimitNoticeSettled(t, TRUE)
  \/ \E t \in Slots : ThinkingSettled(t, TRUE)
  \/ \E t \in Slots, r \in {x \in AgentResults("text") : x.text.len = 12} : AgentSettled(t, r)
  \/ \E t \in Slots : DeleteSettled(t)
  \/ \E t \in Slots : TextSettled(t, TRUE)

SpecRace == InitRace /\ [][NextRace]_vars

\* streaming: the text exchanges of one bot with the chunks the agent streams
InitStream == InitWith({ <<"therapist", Brain(NoSection, NoSection, "undefined")>> })

NextStream ==
  \/ \E t \in Slots, b \in DOMAIN bots, u \in Users : Receive(t, b, u, TextMsg(<<"h", "i">>))
  \/ \E t \in Slots : LimitNoticeSettled(t, TRUE)
  \/ \E t \in Slots : ThinkingSettled(t, TRUE)
  \/ \E t \in Slots, dt \in StreamSteps, n \in ChunkLengths : StreamChunk(t, dt, n)
  \/ \E t \in Slots, i \in 1..MaxChunks, ok \in BOOLEAN : EditSettled(t, i, ok)
  \/ \E t \in Slots, r \in {x \in AgentResults("text") : x.text.len = 12} : AgentSettled(t, r)
  \/ \E t \in Slots : DeleteSettled(t)
  \/ \E t \in Slots : TextSettled(t, TRUE)

SpecStream == InitStream /\ [][NextStream]_vars

\* shutdown: one bot with a call to action, its turns and timers, the health
\* checks and recoveries of its channel, and stopAll
InitStop ==
  InitWith({ <<"therapist", CtaBrain(CallToAction(TRUE, TRUE, 2, FALSE))>> })

NextStop ==
  \/ \E t \in Slots, b \in DOMAIN bots, u \in Users : Receive(t, b, u, TextMsg(<<"h", "i">>))
  \/ \E t \in Slots : LimitNoticeSettled(t, TRUE)
  \/ \E t \in Slots : ThinkingSettled(t, TRUE)
  \/ \E t \in Slots, r \in {x \in AgentResults("text") : x.text.len = 12} : AgentSettled(t, r)
  \/ \E t \in Slots : DeleteSettled(t)
  \/ \E t \in Slots : TextSettled(t, TRUE)
  \/ \E i \in DOMAIN timers : TimerFires(i)
  \/ \E i \in DOMAIN timers, ok \in BOOLEAN : CtaSettled(i, ok)
  \/ HealthTick([b \in DOMAIN bots |-> FALSE])
  \/ \E b \in DOMAIN bots : ChannelStops(b)
  \/ \E r \in recov.running, ok \in BOOLEAN : RecoverStopSettled(r, ok)
  \/ \E r \in recov.running, ok \in BOOLEAN : RecoverWaited(r, ok)
  \/ StopAllStart
  \/ \E ok \in BOOLEAN : StopAllSettled(ok)

SpecStop == InitStop /\ [][NextStop]_vars

(* Scans over two bots: both have nudges and a user who wrote once, and    *)
(* the listing of the users of a bot may throw in a cycle.                  *)

ScanFleet ==
  { <<b, NudgeBrain(NoSection, <<Trigger(24, "no_user_message", FALSE)>>)>> : b \in BotIds }

\* each bot has had one turn with its user an hour ago
InitScan ==
  /\ bots = [b \in BotIds |->
               [NewBot((CHOOSE f \in ScanFleet : f[1] = b)[2]) EXCEPT !.messageCount = 1]]
  /\ sess = [p \in Pairs |->
               [NewSession EXCEPT !.currentUuid = "s1", !.messageCount = 1, !.lastMessageTime = 1]]
  /\ rate = [p \in Pairs |-> 1]
  /\ turn = [t \in Slots |-> IdleTurn]
  /\ clock = 2
  /\ window = 1
  /\ InitBackground

NextScan ==
  \/ \E c \in NudgeSlots, thr \in SUBSET DOMAIN bots : NudgeTick(c, thr)
  \/ \E c \in NudgeSlots, o \in {"text", "empty"} : NudgeGenerated(c, o)
  \/ \E c \in NudgeSlots, ok \in BOOLEAN : NudgeSendSettled(c, ok)
  \/ \E c \in NudgeSlots, ok \in BOOLEAN : NudgeNoteSettled(c, ok)
  \/ \E d \in HourSteps : TimePasses(d)

SpecScan == InitScan /\ [][NextScan]_vars

(* ------------------------------- claims ------------------------------- *)

Kinds(log) == [i \in 1..Len(log) |-> log[i].kind]
Count(log, kind) == Cardinality({i \in 1..Len(log) : log[i].kind = kind})
FailedSend(log, kind) == \E i \in 1..Len(log) : log[i].kind = kind /\ log[i].st = "fail"
PairOf(tr) == <<tr.bot, tr.user>>

\* C1: once checkLimit denies a non-command message, the limit notice is the
\* one message of the turn and the turn stops there: no agent call, and the
\* steps of such a turn leave the session and the rate counter as they were,
\* with or without a photo.
C1_LimitNoticeStopsTurn ==
  [][\A t \in Slots :
       (turn'[t].limited /\ turn'[t] # turn[t]) =>
          /\ turn'[t].pc \in {"limit", "done"}
          /\ Kinds(turn'[t].sent) = <<"limit_notice">>
          /\ turn'[t].agentCalls = 0
          /\ sess' = sess
          /\ rate' = rate]_vars

C1_Witness ==
  \E t \in Slots :
    /\ turn[t].limited /\ turn[t].hasPhoto /\ turn[t].pc = "done"
    /\ turn[t].sent[1].st = "ok"
    /\ rate[PairOf(turn[t])] = DailyLimit

\* C2: an inbound event without photo whose text and caption are empty makes
\* handleMessage return at once: no send, no agent call, no limit notice, and
\* the registry, the session, the rate counter and the clock stay as they were.
C2_EmptyEventIgnored ==
  [][\A t \in Slots :
       (turn'[t].empty /\ turn'[t] # turn[t]) =>
          /\ turn'[t].pc = "done"
          /\ turn'[t].sent = <<>>
          /\ turn'[t].agentCalls = 0
          /\ ~turn'[t].limited /\ ~turn'[t].escaped
          /\ UNCHANGED <<bots, sess, rate, clock>>]_vars

C2_Witness ==
  \E t \in Slots, b \in DOMAIN bots :
    /\ turn[t].empty /\ turn[t].pc = "done"
    /\ bots[b].messageCount > 0

\* the variant the classifier is specified to return
ExpectedMode(tr) ==
  LET imageOn == tr.brain.imageGen.present /\ tr.brain.imageGen.enabled = "true"
      asksImage == \E k \in ImageKeywords : Includes(ToLowerCase(tr.text), k)
      ttsOn == IF tr.ttsPreference = "unset"
               THEN tr.brain.tts.present /\ tr.brain.tts.enabled = "true"
               ELSE tr.ttsPreference = "on"
  IN  IF imageOn /\ asksImage THEN "image"
      ELSE IF ttsOn THEN "tts"
      ELSE "text"

\* a turn that has been classified and still holds the inputs of the classifier
Classified(tr) == tr.mode # "none" /\ (tr.pc = "agent" \/ tr.agentCalls = 0)

CartoonCaption ==
  <<"t", "u", "r", "n", " ", "m", "e", " ", "i", "n", "t", "o", " ",
    "a", " ", "c", "a", "r", "t", "o", "o", "n">>

\* C3: the mode of a turn is the variant specified for its text, brain and
\* TTS preference: image iff imageGen.enabled === true and the lowercased
\* text holds a keyword, else tts iff the effective TTS is on, else text; the
\* caption 'turn me into a cartoon' is never an image turn.
C3_ModeClassification ==
  \A t \in Slots :
    Classified(turn[t]) =>
      /\ turn[t].mode = ExpectedMode(turn[t])
      /\ turn[t].text = CartoonCaption => turn[t].mode # "image"

C3_Witness ==
  \E t \in Slots :
    /\ turn[t].pc = "agent" /\ turn[t].hasPhoto
    /\ turn[t].text = CartoonCaption
    /\ turn[t].brain.imageGen.present /\ turn[t].brain.imageGen.enabled = "true"
    /\ turn[t].mode = "text"

\* C4: in a non-image turn an explicit TTS preference decides the exchange
\* whatever the brain says: preference on gives a speech-synthesis exchange
\* (also on a brain without TTS), preference off a text exchange.
C4_PreferenceDecidesExchange ==
  \A t \in Slots :
    (Classified(turn[t]) /\ ExpectedMode(turn[t]) # "image"
       /\ turn[t].ttsPreference # "unset") =>
      /\ turn[t].pc = "agent"
      /\ turn[t].request.shape = IF turn[t].ttsPreference = "on" THEN "tts" ELSE "text"

\* C5: when the exchange succeeds and surfaces a session identifier, the
\* bookkeeping stores it as the session's current identifier; and the turn
\* that calls the agent passes the stored identifier as the session to resume
\* and counts as a new session only when none is stored.
C5_SessionResumed ==
  [][\A t \in Slots :
       LET p == PairOf(turn'[t]) IN
       /\ (turn[t].pc = "agent" /\ turn'[t].pc = "delete"
             /\ turn'[t].result.success /\ turn'[t].result.sessionId # NoUuid) =>
            sess'[p].currentUuid = turn'[t].result.sessionId
       /\ (turn[t].pc # "agent" /\ turn'[t].pc = "agent") =>
            /\ turn'[t].request.sessionId = sess[p].currentUuid
            /\ turn'[t].isNewSession = (sess[p].currentUuid = NoUuid)]_vars

C5_Witness ==
  \E t \in Slots :
    /\ turn[t].pc = "agent" /\ ~turn[t].isNewSession
    /\ turn[t].request.sessionId \in Uuids
    /\ sess[PairOf(turn[t])].currentUuid = turn[t].request.sessionId
    /\ sess[PairOf(turn[t])].messageCount = 1

\* the pieces of a prompt the claim is about
IsCorePart(x) == x.kind \in {"system", "reminder"} \/ (x.kind = "text" /\ x.body # <<>>)

ExpectedCore(tr) ==
  (IF tr.currentUuid = NoUuid THEN <<"system">> ELSE <<>>) \o
  (IF GetSecurityReminder(tr.brain) # "none" THEN <<"reminder">> ELSE <<>>) \o
  (IF tr.text # <<>> THEN <<"text">> ELSE <<>>)

\* C6: the prompt handed to the agent holds, in this order, the system prompt
\* iff the session had no identifier when the turn read it, the security
\* reminder iff the brain has one (new and resumed sessions alike), and the
\* user's text as received.
C6_PromptAssembly ==
  \A t \in Slots :
    turn[t].pc = "agent" =>
      LET p == OutboundPrompt(turn[t].request) IN
      /\ Kinds(SelectSeq(p, IsCorePart)) = ExpectedCore(turn[t])
      /\ \A i \in 1..Len(p) :
           /\ p[i].kind = "text" => p[i].body = turn[t].text
           /\ p[i].kind = "reminder" => p[i].body = <<GetSecurityReminder(turn[t].brain)>>

C6_Witness ==
  \E t \in Slots :
    /\ turn[t].pc = "agent" /\ turn[t].currentUuid # NoUuid
    /\ GetSecurityReminder(turn[t].brain) # "none"
    /\ turn[t].text # <<>>

\* C7: no exception leaves handleMessage for a message that is not a command,
\* whichever collaborator call throws, the limit notice included.
C7_NoExceptionEscapes ==
  \A t \in Slots : ~turn[t].isCommand => ~turn[t].escaped

\* the text policy of the response dispatcher, from the turn result
TextPolicy(tr) ==
  LET audio == tr.result.audioPath
      images == tr.result.imagePath \/ tr.generatedImages > 0
  IN  \/ ~audio /\ ~images
      \/ audio /\ tr.brain.tts.present /\ tr.brain.tts.sendTextToo
      \/ images /\ tr.brain.imageGen.present /\ tr.brain.imageGen.sendTextToo

TextWasSent(tr) == Count(tr.sent, "text") + Count(tr.sent, "fallback_text") > 0

\* C8 as stated: for an accepted result the response text is sent iff no
\* media was produced or the sendTextToo flag of the produced media is true.
C8_TextIffPolicy ==
  \A t \in Slots :
    (turn[t].pc = "done" /\ turn[t].accepted) =>
      (TextWasSent(turn[t]) <=> TextPolicy(turn[t]))

\* C8 amended: for an accepted result the response text is sent iff the
\* policy holds or the audio send failed (the fallback); the regular text
\* send happens only under the policy; with both flags false a turn that
\* produced media sends no text unless its audio send failed.
C8_TextIffPolicyOrFallback ==
  \A t \in Slots :
    (turn[t].pc = "done" /\ turn[t].accepted) =>
      /\ TextWasSent(turn[t]) <=>
           (TextPolicy(turn[t]) \/ FailedSend(turn[t].sent, "voice"))
      /\ Count(turn[t].sent, "text") > 0 => TextPolicy(turn[t])
      /\ (~TextPolicy(turn[t]) /\ ~FailedSend(turn[t].sent, "voice")) =>
           ~TextWasSent(turn[t])

C8_Witness ==
  \E t \in Slots :
    /\ turn[t].pc = "done" /\ turn[t].accepted /\ turn[t].result.audioPath
    /\ turn[t].result.text.len > 0
    /\ ~FailedSend(turn[t].sent, "voice")
    /\ ~TextWasSent(turn[t])

\* C9: a result with audio gets one sendVoice; the text goes out as a fallback
\* iff that send failed; and the failed sendVoice does not end the turn in
\* the catch block (only a failed text send does).
C9_AudioFallback ==
  \A t \in Slots :
    (turn[t].accepted /\ turn[t].result.audioPath) =>
      /\ Count(turn[t].sent, "voice") = 1
      /\ Count(turn[t].sent, "fallback_text") =
           (IF FailedSend(turn[t].sent, "voice") THEN 1 ELSE 0)
      /\ turn[t].threw =>
           (FailedSend(turn[t].sent, "fallback_text") \/ FailedSend(turn[t].sent, "text"))

C9_Witness ==
  \E t \in Slots :
    /\ turn[t].pc = "done" /\ turn[t].accepted /\ turn[t].result.audioPath
    /\ FailedSend(turn[t].sent, "voice")
    /\ \E i \in 1..Len(turn[t].sent) :
         turn[t].sent[i].kind = "fallback_text" /\ turn[t].sent[i].st = "ok"
    /\ ~turn[t].threw

\* C10: a successful result that carries images (the two-step image or the
\* tool images, also without text) has each image sent once.
C10_EveryImageSent ==
  \A t \in Slots :
    (turn[t].pc = "done" /\ ~turn[t].threw /\ turn[t].result.success
       /\ (turn[t].result.imagePath \/ turn[t].generatedImages > 0)) =>
      Count(turn[t].sent, "photo") =
        turn[t].generatedImages + (IF turn[t].result.imagePath THEN 1 ELSE 0)

\* the regular text messages of a turn, in the order they were sent
TextChunks(tr) == SelectSeq(tr.sent, LAMBDA x : x.kind = "text")

\* ceil(n / MAX_LENGTH) for n above the threshold, one message up to it
ChunkCount(n) == IF n <= 4000 THEN 1 ELSE (n + 3999) \div 4000

\* the i-th piece of a text of n characters cut every 4000
ExpectedChunk(i, n) ==
  [off |-> (i - 1) * 4000, len |-> IF i * 4000 <= n THEN 4000 ELSE n - (i - 1) * 4000]

C12_TriggerSelection ==
  /\ \A b \in DOMAIN bots, u \in Users :
       LET s == sess[<<b, u>>]
           list == bots[b].brain.nudges.triggers
           h == clock - s.lastMessageTime
           L == IF s.nudgeHistory = <<>> THEN 0 ELSE s.nudgeHistory[Len(s.nudgeHistory)].delayHours
           qualifies == {i \in 1..Len(list) :
                           /\ list[i].delayHours <= h
                           /\ list[i].delayHours > L
                           /\ list[i].condition = "no_user_message"}
           r == GetNextNudgeTrigger(list, h, L)
       IN  IF qualifies = {} THEN r = NoTrigger
           ELSE /\ \E i \in qualifies : r = list[i]
                /\ \A i \in qualifies : r.delayHours <= list[i].delayHours
  /\ GetNextNudgeTrigger(<<Trigger(24, "no_user_message", FALSE),
                           Trigger(72, "no_user_message", TRUE)>>, 80, 24).delayHours = 72

C12_Witness ==
  \E c \in NudgeSlots :
    LET cycle == nudges.cycles[c]
        s == sess[<<cycle.bot, cycle.user>>]
    IN  /\ cycle.pc = "generate" /\ cycle.delayHours = 72
        /\ clock - s.lastMessageTime = 80
        /\ Len(s.nudgeHistory) = 1 /\ s.nudgeHistory[1].delayHours = 24

\* C13: of two nudges delivered to the same user of a bot during one period
\* of silence, the later one has the larger delayHours: no tier is delivered
\* twice and none after a later tier.
C13_NudgesMonotonic ==
  \A i, j \in 1..Len(nudges.delivered) :
    (/\ i < j
     /\ nudges.delivered[i].bot = nudges.delivered[j].bot
     /\ nudges.delivered[i].user = nudges.delivered[j].user
     /\ nudges.delivered[i].since = nudges.delivered[j].since) =>
      nudges.delivered[j].delayHours > nudges.delivered[i].delayHours

\* recoverBot invocations a step adds for bot b
Invoked(b) == recov'.calls[b] - recov.calls[b]

\* C14: for each bot a step invokes recoverBot exactly once when it makes the
\* third consecutive failed liveness check or raises the error count to 3,
\* and not at all otherwise (not before, and not again while the condition
\* persists).
C14_ThirdFailureRecoversOnce ==
  [][\A b \in DOMAIN bots :
       Invoked(b) =
         IF \/ recov.fails[b] = 2 /\ recov'.fails[b] = 3
            \/ bots[b].errorCount = 2 /\ bots'[b].errorCount = 3
         THEN 1 ELSE 0]_vars

\* C15: failed is terminal: a step from a state where a bot is failed leaves
\* its status failed and invokes no recoverBot for it.
C15_FailedIsTerminal ==
  [][\A b \in DOMAIN bots :
       bots[b].status = "failed" => bots'[b].status = "failed" /\ Invoked(b) = 0]_vars

\* C20: on a health tick, for each bot whose check does not throw: live and
\* not healthy gives healthy with error count 0; not live and not unhealthy
\* gives unhealthy and one recoverBot; in the two other cases status and
\* error count stay and no recoverBot is invoked.
C20_HealthTickCases ==
  [][\A thr \in [DOMAIN bots -> BOOLEAN] : HealthTick(thr) =>
       \A b \in DOMAIN bots : ~thr[b] =>
         IF bots[b].polling /\ bots[b].status # "healthy"
         THEN bots'[b].status = "healthy" /\ bots'[b].errorCount = 0 /\ Invoked(b) = 0
         ELSE IF ~bots[b].polling /\ bots[b].status # "unhealthy"
         THEN /\ bots'[b].status = "unhealthy" /\ Invoked(b) = 1
              /\ bots'[b].errorCount = bots[b].errorCount
         ELSE /\ bots'[b].status = bots[b].status /\ Invoked(b) = 0
              /\ bots'[b].errorCount = bots[b].errorCount]_vars

\* two ticks have found one bot not polling: the first made it unhealthy and
\* started its only recovery, the second left it alone; the other bot, live
\* and healthy, was left alone by both
C20_Witness ==
  /\ bots["cartooned"].status = "unhealthy" /\ recov.calls["cartooned"] = 1
  /\ bots["cartooned"].errorCount = 0 /\ recov.fails["cartooned"] = 2
  /\ bots["therapist"].status = "healthy" /\ recov.calls["therapist"] = 0
  /\ bots["therapist"].errorCount = 0 /\ bots["therapist"].polling
  /\ \E r \in recov.running : r.bot = "cartooned" /\ r.pc = "stopping"

\* the turn in slot t handles the command /restart
IsRestart(tr) == tr.isCommand /\ tr.command = CmdRestart

\* C16: a /restart turn calls no agent and sends exactly one message: the
\* confirmation on the designated bot, where the step that handles it leaves
\* the session without a current identifier, and the 'not available' notice
\* on any other bot, where that step leaves the session as it was.
C16_RestartDesignatedOnly ==
  /\ [](\A t \in Slots : IsRestart(turn[t]) =>
          /\ turn[t].agentCalls = 0
          /\ Len(turn[t].sent) = 1
          /\ turn[t].sent[1].kind =
               IF turn[t].bot = "cartooned" THEN "restarted" ELSE "unavailable")
  /\ [][\A t \in Slots : (~IsRestart(turn[t]) \/ Finished(turn[t])) /\ IsRestart(turn'[t])
                            /\ ~Finished(turn'[t]) =>
          LET p == <<turn'[t].bot, turn'[t].user>>
          IN  IF turn'[t].bot = "cartooned"
              THEN sess'[p].currentUuid = NoUuid
              ELSE sess'[p] = sess[p]]_vars

\* the designated bot has confirmed a /restart of a session that had held a
\* conversation, and the session has no current identifier
C16_Witness ==
  \E t \in Slots :
    /\ IsRestart(turn[t]) /\ turn[t].pc = "done" /\ turn[t].bot = "cartooned"
    /\ turn[t].sent[1].kind = "restarted" /\ turn[t].sent[1].st = "ok"
    /\ sess[<<"cartooned", turn[t].user>>].messageCount > 0
    /\ sess[<<"cartooned", turn[t].user>>].currentUuid = NoUuid

\* another bot has answered /restart with the notice and kept its identifier
C16_OtherBot ==
  \E t \in Slots :
    /\ IsRestart(turn[t]) /\ turn[t].pc = "done" /\ turn[t].bot = "therapist"
    /\ turn[t].sent[1].kind = "unavailable"
    /\ sess[<<"therapist", turn[t].user>>].currentUuid # NoUuid

\* messages of the exceptions the try block of handleMessage catches
ThrownMessages == {"TypeError", "agent", "send"}

\* C17: what a failing turn sends does not depend on internal error detail:
\* a turn about to answer a failed exchange sends the same messages whatever
\* the error text of the result, and a turn whose try block throws sends the
\* same messages whatever the message of the exception.
C17_FailureTextIndependent ==
  \A t \in Slots :
    /\ turn[t].pc = "delete" /\ ~Accepted(turn[t].result) =>
         \A e1, e2 \in AgentErrors :
           Dispatch([turn[t] EXCEPT !.result.error = e1]).sent =
           Dispatch([turn[t] EXCEPT !.result.error = e2]).sent
    /\ turn[t].pc \in {"thinking", "photo", "agent", "fallback", "image", "tool_image",
                        "text", "agent_error"} =>
         \A m1, m2 \in ThrownMessages :
           Catch(turn[t], m1).sent = Catch(turn[t], m2).sent

\* the handler invocation in slot t returns or rejects in this step
Completes(t) == ~Finished(turn[t]) /\ turn'[t].pc = "done"

\* the reply of the turn was successful: an accepted result, no exception
SuccessfulReply(tr) == tr.accepted /\ ~tr.threw /\ ~tr.escaped

\* the interval of the brain, 5 when it configures none
Interval(brain) ==
  IF brain.callToAction.triggerEvery = 0 THEN 5 ELSE brain.callToAction.triggerEvery

\* the call-to-action policy of the brain of the turn holds for the session
PolicyHolds(tr) ==
  LET count == sess'[<<tr.bot, tr.user>>].messageCount
  IN  /\ tr.brain.callToAction.enabled
      /\ \/ tr.brain.callToAction.sendOnFirstMessage /\ count = 1
         \/ count % Interval(tr.brain) = 0

\* C19: a step schedules one timer for each turn that completes in it after
\* a successful reply with the policy enabled and its condition true, and
\* no other timer: none with the policy disabled, the condition false, an
\* agent failure or an exception.
C19_CtaScheduledIffPolicy ==
  [][/\ Len(timers') - Len(timers) =
         Cardinality({t \in Slots : /\ Completes(t)
                                    /\ SuccessfulReply(turn'[t])
                                    /\ PolicyHolds(turn'[t])})
     /\ \A t \in Slots : Completes(t) =>
          turn'[t].cta = (SuccessfulReply(turn'[t]) /\ PolicyHolds(turn'[t]))]_vars

\* a brain with interval 2 and no message on the first reply: the first
\* successful reply scheduled nothing, the second one scheduled the photo,
\* which has been sent
C19_Witness ==
  /\ Len(timers) = 1
  /\ timers[1].messageCount = 2 /\ timers[1].st = "photo_sent"
  /\ \E t \in Slots :
       /\ turn[t].pc = "done" /\ turn[t].cta
       /\ ~turn[t].brain.callToAction.sendOnFirstMessage
       /\ turn[t].brain.callToAction.triggerEvery = 2
       /\ sess[<<turn[t].bot, turn[t].user>>].messageCount = 2

\* the exchange of the turn returned failure or nothing usable, and the
\* turn is past the deletion of the status indicator
Unusable(result) ==
  ~result.success \/ (result.text.len = 0 /\ ~result.imagePath /\ ~result.audioPath)

AnsweredFailure(tr) ==
  /\ Count(tr.sent, "delete_status") = 1
  /\ Unusable(tr.result)
  /\ tr.pc \in {"agent_error", "apology", "done"}

\* what such a turn does in any case: no response, one agent call, the
\* indicator deleted, no rejection, no call to action
NoResponseNoRetry(tr) ==
  /\ \A k \in {"text", "voice", "photo", "fallback_text"} : Count(tr.sent, k) = 0
  /\ tr.agentCalls = 1
  /\ ~tr.escaped
  /\ ~tr.cta
  /\ \A i \in DOMAIN timers : timers[i].messageCount # sess[PairOf(tr)].messageCount
                                \/ <<timers[i].bot, timers[i].user>> # PairOf(tr)

\* C18 as stated: a turn whose exchange returned failure or nothing usable
\* sends exactly one apology and raises no exception, besides sending no
\* response, calling the agent once and scheduling no call to action.
C18_OneApologyNoException ==
  \A t \in Slots : AnsweredFailure(turn[t]) =>
    /\ NoResponseNoRetry(turn[t])
    /\ Count(turn[t].sent, "agent_error") + Count(turn[t].sent, "apology") = 1
    /\ ~turn[t].threw

\* C18 amended: such a turn sends the agent-error reply once; only when that
\* send fails is an exception raised, which the catch block answers with one
\* further apology; the rest as stated.
C18_OneApologyUnlessSendFails ==
  \A t \in Slots : AnsweredFailure(turn[t]) =>
    /\ NoResponseNoRetry(turn[t])
    /\ Count(turn[t].sent, "agent_error") = 1
    /\ turn[t].threw = FailedSend(turn[t].sent, "agent_error")
    /\ Count(turn[t].sent, "apology") = IF turn[t].threw THEN 1 ELSE 0

\* a successful exchange without usable content was answered with the one
\* agent-error reply, on the first message of a brain that sends its call
\* to action on the first message
C18_Witness ==
  \E t \in Slots :
    /\ AnsweredFailure(turn[t]) /\ turn[t].pc = "done" /\ turn[t].result.success
    /\ turn[t].sent[Len(turn[t].sent)].kind = "agent_error"
    /\ turn[t].sent[Len(turn[t].sent)].st = "ok"
    /\ turn[t].brain.callToAction.enabled /\ turn[t].brain.callToAction.sendOnFirstMessage
    /\ sess[PairOf(turn[t])].messageCount = 1

\* the recoverBot invocation r is still suspended after the step
Continues(r) == \E q \in recov'.running : q.bot = r.bot /\ q.id = r.id

\* C21: the channel handle of a bot is replaced only by a recoverBot
\* invocation that has stopped the channel it held and waited, and the same
\* step sets status healthy and error count 0 on a polling channel; an
\* invocation goes from stopping to waiting only with the channel it held
\* stopped; an invocation that ends without replacing the handle leaves
\* status failed.
C21_RecoveryInOrder ==
  [][/\ \A b \in DOMAIN bots : bots'[b].channel # bots[b].channel =>
          /\ \E r \in recov.running : r.bot = b /\ r.pc = "waiting" /\ ~Continues(r)
          /\ bots'[b].channel = bots[b].channel + 1
          /\ bots'[b].status = "healthy" /\ bots'[b].errorCount = 0 /\ bots'[b].polling
     /\ \A r \in recov.running :
          /\ (r.pc = "stopping" /\ [r EXCEPT !.pc = "waiting"] \in recov'.running
               /\ bots[r.bot].channel = r.channel) => ~bots'[r.bot].polling
          /\ (r.pc = "waiting" /\ Continues(r)) => r \in recov'.running
          /\ (~Continues(r) /\ bots'[r.bot].channel = bots[r.bot].channel) =>
               bots'[r.bot].status = "failed"]_vars

\* the one recovery of a bot has replaced its first channel and ended: the
\* bot is healthy on a polling channel with error count 0
C21_Witness ==
  \E b \in DOMAIN bots :
    /\ bots[b].channel = 2 /\ bots[b].status = "healthy" /\ bots[b].errorCount = 0
    /\ bots[b].polling /\ recov.calls[b] = 1
    /\ \A r \in recov.running : r.bot # b

\* C22: a bot that channel errors have made unhealthy and whose channel is
\* not polling does not stay so forever without recovery: a recoverBot
\* invocation follows, or the bot leaves the unhealthy status.
C22_EscalationLeadsToRecovery ==
  \A b \in BotIds :
    (b \in DOMAIN bots /\ bots[b].status = "unhealthy" /\ bots[b].errorCount >= 5
       /\ ~bots[b].polling /\ recov.calls[b] = 0)
    ~> (b \in DOMAIN bots /\ (recov.calls[b] > 0 \/ bots[b].status # "unhealthy"))

\* the kinds of message that make up a final response
ResponseKinds == {"voice", "photo", "text", "fallback_text", "agent_error", "apology"}

\* the exchange of the turn in slot t returns in this step
ExchangeReturns(t) ==
  turn[t].pc = "agent" /\ turn'[t].pc # "agent" /\ Count(turn'[t].sent, "delete_status") = 1

\* C23: the step in which a successful exchange returns raises the message
\* count of the session and the rate counter of the pair by one and stamps
\* the last-activity time with the current time, with no part of the final
\* response sent yet; no other step of a turn changes either counter.
C23_BookkeepingOncePerTurn ==
  [][/\ \A t \in Slots : (ExchangeReturns(t) /\ turn'[t].result.success) =>
          LET p == PairOf(turn[t])
          IN  /\ sess'[p].messageCount = sess[p].messageCount + 1
              /\ rate'[p] = rate[p] + 1
              /\ sess'[p].lastMessageTime = clock
              /\ sess'[p].lastMessageTime > sess[p].lastMessageTime
              /\ \A k \in ResponseKinds : Count(turn'[t].sent, k) = 0
     /\ \A p \in Pairs :
          (sess'[p].messageCount # sess[p].messageCount \/ rate'[p] # rate[p]) =>
            \E t \in Slots : ExchangeReturns(t) /\ PairOf(turn[t]) = p]_vars

\* the second successful exchange of a pair has returned and its response
\* is not dispatched yet: both counters stand at 2
C23_Witness ==
  \E t \in Slots :
    /\ turn[t].pc = "delete" /\ turn[t].result.success
    /\ sess[PairOf(turn[t])].messageCount = 2 /\ rate[PairOf(turn[t])] = 2
    /\ sess[PairOf(turn[t])].lastMessageTime > 1
    /\ \A k \in ResponseKinds : Count(turn[t].sent, k) = 0

C25_PersistDeleteRespond ==
  \A t \in Slots :
    LET log == turn[t].sent
    IN  /\ \A i, j \in 1..Len(log) :
             (log[i].kind = "delete_status" /\ log[j].kind \in ResponseKinds) => i < j
        /\ \A j \in 1..Len(log) :
             log[j].kind \in ResponseKinds \ {"apology"} => Count(log, "delete_status") = 1
        /\ turn[t].pc = "delete" =>
             /\ log[Len(log)].kind = "delete_status"
             /\ sess[PairOf(turn[t])].messageCount > 0
             /\ (turn[t].result.success /\ turn[t].result.sessionId # NoUuid) =>
                  sess[PairOf(turn[t])].currentUuid = turn[t].result.sessionId

\* the second exchange of a session returned an identifier, which the
\* session holds, the indicator was deleted, and the voice and the text of the response followed
C25_Witness ==
  \E t \in Slots :
    /\ turn[t].pc = "done" /\ turn[t].result.success
    /\ sess[PairOf(turn[t])].messageCount = 2
    /\ turn[t].result.sessionId # NoUuid
    /\ sess[PairOf(turn[t])].currentUuid = turn[t].result.sessionId
    /\ Count(turn[t].sent, "delete_status") = 1
    /\ Count(turn[t].sent, "voice") = 1 /\ Count(turn[t].sent, "text") = 1

\* C26: a step that gives up the nudge of a user because no message was
\* generated sends nothing, injects no note and records nothing: the
\* sessions and the deliveries stay as they were and the cycle goes on to
\* the next user or ends; a pair whose session has no current identifier is
\* passed by the scan without an agent call.
C26_FailedGenerationNoEffect ==
  [][\A c \in NudgeSlots :
       /\ (nudges'.aborted # nudges.aborted /\ nudges'.cycles[c] # nudges.cycles[c]) =>
            /\ nudges.cycles[c].pc = "generate"
            /\ nudges'.cycles[c].pc \in {"done", "generate"}
            /\ sess' = sess /\ nudges'.delivered = nudges.delivered /\ turn' = turn
       /\ (nudges.cycles[c].pc = "done" /\ nudges'.cycles[c].pc # "done") =>
            /\ nudges'.cycles[c].pc = "generate"
            /\ sess[<<nudges'.cycles[c].bot, nudges'.cycles[c].user>>].currentUuid # NoUuid
            /\ sess' = sess /\ nudges'.delivered = nudges.delivered]_vars

\* the nudge of a session due for its first nudge was given up: nothing was
\* delivered and the history is empty
C26_Witness ==
  /\ nudges.aborted = 1 /\ nudges.delivered = <<>>
  /\ \A c \in NudgeSlots : nudges.cycles[c].pc = "done"
  /\ \E p \in Pairs : /\ sess[p].currentUuid # NoUuid /\ sess[p].nudgeHistory = <<>>
                       /\ HoursSince(sess[p]) >= 24

\* C27: a delivered nudge is recorded: when sendNudge ends after a
\* delivery, the history of the session has one more entry, with the delay
\* of the trigger and not answered.
C27_DeliveredIsRecorded ==
  [][\A c \in NudgeSlots :
       LET cycle == nudges.cycles[c]
           p == <<cycle.bot, cycle.user>>
           delivers == cycle.pc = "send" /\ Len(nudges'.delivered) > Len(nudges.delivered)
       IN  ((cycle.pc = "note" \/ delivers) /\ nudges'.cycles[c].pc # "note"
              /\ nudges'.cycles[c] # cycle) =>
             /\ Len(sess'[p].nudgeHistory) = Len(sess[p].nudgeHistory) + 1
             /\ sess'[p].nudgeHistory[Len(sess'[p].nudgeHistory)].delayHours = cycle.delayHours
             /\ ~sess'[p].nudgeHistory[Len(sess'[p].nudgeHistory)].userResponded]_vars

\* the brain of the bot speaks by default
Speaks(b) == bots[b].brain.tts.present /\ bots[b].brain.tts.enabled = "true"

C28_TextDespiteSpeechMode ==
  \E i \in DOMAIN nudges.delivered :
    /\ nudges.delivered[i].modality = "text" /\ ~Speaks(nudges.delivered[i].bot)
    /\ sess[<<nudges.delivered[i].bot, nudges.delivered[i].user>>].ttsPreference = "on"

\* a nudge of bot b is due for its user
Due(b) ==
  LET s == sess[<<b, 1>>]
      triggers == bots[b].brain.nudges.triggers
  IN  /\ bots[b].brain.nudges.enabled /\ s.lastMessageTime # 0 /\ s.currentUuid # NoUuid
      /\ \E i \in DOMAIN triggers : Eligible(triggers[i], HoursSince(s), LastNudgeSent(s))

\* C29: in a nudge cycle an exception while processing one bot does not keep
\* the other bots from being scanned: when a nudge is due for a bot whose
\* processing does not throw, the cycle gets to generate a nudge for such a
\* bot.
C29_ScanIsolatesBots ==
  [][\A c \in NudgeSlots, thr \in SUBSET BotIds :
       (NudgeTick(c, thr) /\ \E b \in DOMAIN bots \ thr : Due(b)) =>
         /\ nudges'.cycles[c].pc = "generate"
         /\ nudges'.cycles[c].bot \notin thr /\ Due(nudges'.cycles[c].bot)]_vars

\* both slots hold turns of the same pair
SamePair(t1, t2) == t1 # t2 /\ PairOf(turn[t1]) = PairOf(turn[t2])

\* C30: with two turns of one pair in flight, the exchange that returns
\* stores its identifier over whatever the other turn stored, and leaves the
\* other turn with the identifier it read at its start; two turns that both
\* read no identifier both go out as new sessions with the system prompt.
C30_LastWriteWins ==
  /\ [][\A t1, t2 \in Slots :
          (SamePair(t1, t2) /\ ~Finished(turn[t2]) /\ ExchangeReturns(t1)
             /\ turn'[t1].result.success /\ turn'[t1].result.sessionId # NoUuid) =>
            /\ sess'[PairOf(turn[t1])].currentUuid = turn'[t1].result.sessionId
            /\ turn'[t2] = turn[t2]]_vars
  /\ [](\A t1, t2 \in Slots :
          (SamePair(t1, t2) /\ turn[t1].pc = "agent" /\ turn[t2].pc = "agent"
             /\ turn[t1].currentUuid = NoUuid /\ turn[t2].currentUuid = NoUuid) =>
            \A t \in {t1, t2} :
              /\ turn[t].isNewSession /\ turn[t].request.sessionId = NoUuid
              /\ OutboundPrompt(turn[t].request)[1].kind = "system")

\* the first two exchanges of a pair overlapped and returned different
\* identifiers: the session holds the one written last, the one the other
\* turn was given is stored nowhere
C30_Witness ==
  \E t1, t2 \in Slots :
    /\ SamePair(t1, t2)
    /\ turn[t1].pc = "done" /\ turn[t2].pc = "done"
    /\ turn[t1].result.sessionId = "s1" /\ turn[t2].result.sessionId = "s2"
    /\ sess[PairOf(turn[t1])].messageCount = 2
    /\ sess[PairOf(turn[t1])].currentUuid = "s2"

\* two turns of a pair without identifier are both with the agent, each
\* with the system prompt
C30_BothNew ==
  \E t1, t2 \in Slots :
    /\ SamePair(t1, t2) /\ turn[t1].pc = "agent" /\ turn[t2].pc = "agent"
    /\ turn[t1].isNewSession /\ turn[t2].isNewSession
    /\ OutboundPrompt(turn[t1].request)[1].kind = "system"
    /\ OutboundPrompt(turn[t2].request)[1].kind = "system"

\* C31: stopAll cancels neither the call-to-action timers nor the turns in
\* flight: no step of stopAll changes a timer, a turn, a session or a rate
\* counter, and a timer that waits or a turn that awaits the agent when
\* stopAll has completed can still take its next step
C31_ShutdownCancelsNothing ==
  [][/\ recov'.stop # recov.stop \/ recov'.todo # recov.todo
        => timers' = timers /\ turn' = turn /\ sess' = sess /\ rate' = rate
     /\ recov.stop = "done"
        => /\ \A i \in DOMAIN timers : timers[i].st = "waiting" => ENABLED TimerFires(i)
           /\ \A t \in Slots : turn[t].pc = "agent"
                => ENABLED AgentSettled(t, CHOOSE x \in AgentResults("text") : x.text.len = 12)]_vars

\* stopAll has completed and stopped the channel; the timer an earlier
\* turn scheduled fired after that and its send went out, and a turn that
\* began before the registry was cleared is still awaiting the agent
C31_Witness ==
  /\ recov.stop = "done"
  /\ ~recov.detached["therapist"].polling
  /\ \E i \in DOMAIN timers : timers[i].late /\ timers[i].st = "message_sent"
  /\ \E t \in Slots : turn[t].pc = "agent" /\ turn[t].bot = "therapist"

\* C40: once stopAll has completed no channel polls and none is created
\* later: a recoverBot in flight when stopAll ran makes no new channel for
\* a bot that was removed from the registry
C40_NoChannelAfterStop ==
  [][recov.stop = "done"
     => \A b \in DOMAIN recov.detached :
          /\ recov'.detached[b].channel = recov.detached[b].channel
          /\ recov'.detached[b].polling => recov.detached[b].polling]_vars

\* the TTS state in effect for a session of a brain: the stored preference
\* when there is one, else whether the brain enables TTS
EffectiveTts(brain, s) ==
  IF s.ttsPreference = "unset"
  THEN brain.tts.present /\ brain.tts.enabled = "true"
  ELSE s.ttsPreference = "on"

\* slot t has just taken a /tts command
TakesTts(t) ==
  /\ Finished(turn[t]) /\ ~Finished(turn'[t])
  /\ turn'[t].isCommand /\ turn'[t].command = CmdTts

\* C32: /tts stores the negation of the TTS state in effect, sends the one
\* confirmation that names the new mode and calls no agent; a second /tts
\* brings the state in effect back, and a turn that is not an image turn is
\* classified by the preference stored when it is prepared
C32_TtsToggle ==
  [][\A t \in Slots :
       /\ TakesTts(t) =>
            LET p == PairOf(turn'[t])
                brain == bots[turn'[t].bot].brain
                was == EffectiveTts(brain, sess[p])
            IN  /\ sess'[p].ttsPreference = IF was THEN "off" ELSE "on"
                /\ sess'[p] = [sess[p] EXCEPT !.ttsPreference = sess'[p].ttsPreference]
                /\ EffectiveTts(brain, sess'[p]) = ~was
                /\ EffectiveTts(brain, CommandSession(sess'[p], brain, turn'[t].bot, CmdTts)) = was
                /\ Kinds(turn'[t].sent) = << IF was THEN "text_mode" ELSE "speech_mode" >>
                /\ turn'[t].agentCalls = 0 /\ rate' = rate
       /\ (turn[t].isCommand /\ turn'[t].isCommand /\ turn'[t] # turn[t] /\ ~Finished(turn[t]))
            => /\ Finished(turn'[t]) /\ turn'[t].agentCalls = 0
               /\ Len(turn'[t].sent) = Len(turn[t].sent) /\ sess' = sess
       /\ (turn[t].pc \in {"thinking", "photo"} /\ turn'[t].pc = "agent")
            => LET s == sess[PairOf(turn[t])]
               IN  turn'[t].mode # "image"
                     => turn'[t].mode = IF EffectiveTts(turn[t].brain, s) THEN "tts" ELSE "text"]_vars

\* the brain has no TTS, the user switched it on with /tts and their next
\* turn is a speech exchange awaiting the agent
C32_Witness ==
  \E t \in Slots :
    /\ turn[t].pc = "agent" /\ turn[t].mode = "tts"
    /\ turn[t].brain.tts.present /\ turn[t].brain.tts.enabled # "true"
    /\ sess[PairOf(turn[t])].ttsPreference = "on"

\* two /tts commands were taken: the preference is off on a brain whose
\* default is off, and the confirmation of the second names the text mode
C32_Twice ==
  \E t \in Slots :
    /\ turn[t].isCommand /\ turn[t].command = CmdTts /\ turn[t].pc = "done"
    /\ Kinds(turn[t].sent) = <<"text_mode">>
    /\ ~BrainTtsDefault(turn[t].brain)
    /\ sess[PairOf(turn[t])].ttsPreference = "off"

\* C34: a turn whose exchange returns failure leaves the bookkeeping as it
\* was: the step in which the failed result arrives changes neither the
\* session (identifier, message count, last activity, nudge history) nor
\* the rate counter
C34_FailedExchangeFrame ==
  [][\A t \in Slots :
       (turn[t].pc = "agent" /\ turn'[t].pc = "delete" /\ ~turn'[t].result.success)
         => sess' = sess /\ rate' = rate]_vars

\* the sends of kind that reached the user
Delivered(log, kind) ==
  Cardinality({i \in DOMAIN log : log[i].kind = kind /\ log[i].st = "ok"})

\* C37: in a successful turn whose response fits in one message the text
\* reaches the user at most once: the fallback after a failed audio send
\* and the regular text send never both deliver it
C37_TextAtMostOnce ==
  \A t \in Slots :
    (turn[t].accepted /\ turn[t].clean <= MAX_LENGTH) =>
      Delivered(turn[t].sent, "fallback_text") + Delivered(turn[t].sent, "text") <= 1

\* C38: a turn that created the status indicator attempts to delete it on
\* every exit path: no handler invocation ends with the indicator created
\* and no deleteMessage called
C38_IndicatorDeleted ==
  \A t \in Slots :
    (turn[t].pc = "done" /\ Delivered(turn[t].sent, "thinking") = 1)
      => Count(turn[t].sent, "delete_status") >= 1

\* the turns of pair p whose agent call is made and has not yet returned
AwaitingAgent(p) == {t \in Slots : turn[t].pc = "agent" /\ PairOf(turn[t]) = p}

\* C35: the rate gate holds under concurrency: the exchanges counted for a
\* pair and the agent calls of the pair still in flight never exceed the
\* daily limit together
C35_RateGateConcurrent ==
  \A p \in Pairs : rate[p] + Cardinality(AwaitingAgent(p)) <= DailyLimit

\* C36: a rotation of the session is not undone by an older turn: an
\* exchange that was sent with the identifier read before the rotation and
\* returns when the session holds none installs no identifier
C36_RotationNotUndone ==
  [][\A t \in Slots :
       (ExchangeReturns(t) /\ turn[t].currentUuid # NoUuid
          /\ sess[PairOf(turn[t])].currentUuid = NoUuid)
         => sess'[PairOf(turn[t])].currentUuid = NoUuid]_vars

\* C39: a nudge reaches only a user who is still silent: in the step that
\* delivers a nudge the user has been inactive for the delay of its trigger
C39_NudgeOnlyWhenSilent ==
  [][Len(nudges'.delivered) > Len(nudges.delivered) =>
       LET d == nudges'.delivered[Len(nudges'.delivered)]
       IN  HoursSince(sess[<<d.bot, d.user>>]) >= d.delayHours]_vars

\* C33: the edits of the status indicator in a text exchange are throttled:
\* the first comes more than 1000 ms after the stream was set up and any
\* two consecutive ones are more than 1000 ms apart; every chunk is added
\* to the streamed text whether or not it causes an edit; and a failed edit
\* changes nothing of the turn but the state of that edit
C33_StreamThrottle ==
  /\ [](\A t \in Slots :
          LET e == turn[t].edits
          IN  /\ \A i \in DOMAIN e : e[i].at > 1000 /\ e[i].preview <= 403
              /\ \A i \in DOMAIN e : i > 1 => e[i].at - e[i - 1].at > 1000
              /\ Len(e) <= turn[t].chunks)
  /\ [][\A t \in Slots :
          /\ \A dt \in StreamSteps, n \in ChunkLengths :
               StreamChunk(t, dt, n) =>
                 /\ turn'[t].streamedText = turn[t].streamedText + n
                 /\ Len(turn'[t].edits) > Len(turn[t].edits)
                      <=> turn[t].now + dt - turn[t].lastUpdate > 1000
                 /\ turn'[t].pc = "agent"
          /\ \A i \in 1..MaxChunks :
               EditSettled(t, i, FALSE) =>
                 /\ turn'[t].pc = turn[t].pc /\ turn'[t].threw = turn[t].threw
                 /\ turn'[t].sent = turn[t].sent
                 /\ turn'[t].streamedText = turn[t].streamedText]_vars

\* a text turn ended with its response delivered after four chunks of which
\* two caused an edit, 1500 ms apart, and two caused none; the first edit
\* failed, the second carried the preview cut at 400 characters
C33_Witness ==
  \E t \in Slots :
    /\ turn[t].pc = "done" /\ turn[t].accepted /\ Delivered(turn[t].sent, "text") = 1
    /\ turn[t].chunks = 4 /\ turn[t].streamedText = 502
    /\ Len(turn[t].edits) = 2
    /\ turn[t].edits[1].st = "ignored" /\ turn[t].edits[1].at = 1500
    /\ turn[t].edits[2].st = "ok" /\ turn[t].edits[2].at = 3000
    /\ turn[t].edits[2].preview = 403

====
